---- MODULE Spec2Model ----
(***************************************************************************)
(* Client-side coordination layer of the print-shop storefront:            *)
(*   - the load-balanced fetch client        (src/lib/api.ts)              *)
(*   - the checkout / payment flow           (CheckoutModal)               *)
(*   - the session manager and its dedup singletons (useSessionManager)    *)
(* Each part has its own specification (SpecLB, SpecCheckout, SpecSession) *)
(* over the shared variable tuple; a specification leaves the variables of *)
(* the other parts unchanged.                                              *)
(***************************************************************************)
EXTENDS Integers, Sequences, FiniteSets, TLC

VARIABLES
    selectedServer,      \* localStorage['selectedServer']
    currentServerIndex,  \* module-level round-robin index of api.ts
    lb,                  \* the running fetchWithLoadBalancer calls
    files,               \* CheckoutModal props.files
    customerName,        \* CheckoutModal state
    isProcessing,
    error,
    showRetry,
    lastAttempt,
    pay,                 \* where the running handlePaymentMethod / Razorpay handler stands
    razorpayLoaded,      \* window.Razorpay is present
    att,                 \* history of the current payment attempt
    se,                  \* the session manager: window globals, storage, hook instances
    outs,                \* how the underlying requests of the observed call 0 settled
    up,                  \* FileUpload: the registration of a file and the upload batch
    tab2,                \* the session manager of the other tab on the same storage
    call,                \* the call of a library function being evaluated
    pr,                  \* usePricing: hook state, the pricing cache and the clock
    staged               \* FileUpload: the staged files and the running processFiles calls

lbVars == <<selectedServer, currentServerIndex, lb>>

libVars == <<call, pr, staged>>

coVars == <<files, customerName, isProcessing, error, showRetry, lastAttempt, pay,
            razorpayLoaded, att>>

vars == <<lbVars, coVars, se, outs, up, tab2, libVars>>

-----------------------------------------------------------------------------
(* Bounds *)

NumAppCalls == 1         \* application calls (default options) running beside call 0
MaxRetriesOpt == 4       \* largest maxRetries option a caller passes
MaxFiles == 2            \* staged files handed to the checkout
NumInst == 2             \* mounted useSessionManager instances
MaxRuns == 3             \* initializeSession runs started in one behaviour
MaxSessions == 2         \* sessions the backend creates in one behaviour
MaxTasks == 2            \* upload tasks of one file running at the same time
MaxPrice == 8            \* unit prices of a pricing table
MaxPages == 10           \* pages of a document
MaxCopies == 3           \* copies of a print job
MaxRangeLen == 5          \* characters of a page-range string
MaxFetches == 2          \* pricing requests in flight at the same time
MaxMarkers == 3          \* /Count markers in the scanned part of a PDF
MaxDrops == 2            \* processFiles calls running at the same time

\* no library function is being evaluated
NoCall == [fn |-> "none"]

\* usePricing is not mounted
NoPricing == [pc |-> "unmounted"]

\* FileUpload after mount: no file staged, no processFiles call running
NoStaged == [files |-> <<>>, drops |-> [d \in 1..MaxDrops |-> [pc |-> "idle", files |-> <<>>, dropped |-> {}]],
             accepted |-> {}]

NoLibrary == call = NoCall /\ pr = NoPricing /\ staged = NoStaged

Min(a, b) == IF a < b THEN a ELSE b
Max(a, b) == IF a > b THEN a ELSE b

-----------------------------------------------------------------------------
(* Load-balanced fetch client, src/lib/api.ts *)

BACKEND_SERVERS == <<"b12", "b13", "b14">>

PoolSet == {BACKEND_SERVERS[k] : k \in 1..Len(BACKEND_SERVERS)}

NoServer == "none"           \* localStorage.getItem returned null
StaleServer == "b99"         \* a stored origin that is no pool member

Calls == 0..NumAppCalls

\* what the platform fetch does with one underlying request
FetchOutcomes == {"ok", "non2xx", "timeout", "network"}

\* a 400 answer whose body contains 'MinRequestBodyDataRate'; "non2xx" is any
\* other answer outside 2xx
RegOutcomes == FetchOutcomes \cup {"minRate400"}

\* the same when the caller passed an abortSignal, which may fire first
SignalOutcomes == FetchOutcomes \cup {"aborted"}

NoResult == [type |-> "none", ok |-> FALSE, server |-> NoServer, err |-> "none"]
Response(s, isOk) == [type |-> "response", ok |-> isOk, server |-> s, err |-> "none"]
Thrown(e) == [type |-> "error", ok |-> FALSE, server |-> NoServer, err |-> e]

\* fetchWithTimeout: the settled underlying request as the caller sees it
FetchWithTimeout(s, o) ==
    CASE o = "ok" -> Response(s, TRUE)
      [] o = "non2xx" -> Response(s, FALSE)
      [] o = "timeout" -> Thrown("TimeoutError")
      [] o = "aborted" -> Thrown("TimeoutError")
      [] o = "minRate400" -> Response(s, FALSE)
      [] OTHER -> Thrown("NetworkError")

GetNextServerSkipping(idx) ==
    [server |-> BACKEND_SERVERS[idx + 1], idx |-> (idx + 2) % Len(BACKEND_SERVERS)]

\* getNextServer: the server at the round-robin index, and the advanced index
GetNextServer(idx) ==
    [server |-> BACKEND_SERVERS[idx + 1], idx |-> (idx + 1) % Len(BACKEND_SERVERS)]

GetStickyServerAlwaysNext(sel, idx) ==
    [server |-> GetNextServer(idx).server,
     sel |-> GetNextServer(idx).server,
     idx |-> GetNextServer(idx).idx]

\* getStickyServer: the server to use, the stored value and the index afterwards
GetStickyServer(sel, idx) ==
    IF sel = NoServer \/ sel \notin PoolSet
    THEN [server |-> GetNextServer(idx).server,
          sel |-> GetNextServer(idx).server,
          idx |-> GetNextServer(idx).idx]
    ELSE [server |-> sel, sel |-> sel, idx |-> idx]

ServersToTryUnfiltered(sticky) == BACKEND_SERVERS

\* BACKEND_SERVERS.filter(s => s !== stickyServer)
ServersToTry(sticky) == SelectSeq(BACKEND_SERVERS, LAMBDA s : s # sticky)

LoopBoundIgnoringMaxRetries(sticky, maxRetries) == Len(ServersToTry(sticky))

\* Math.min(serversToTry.length, maxRetries - 1)
LoopBound(sticky, maxRetries) == Min(Len(ServersToTry(sticky)), maxRetries - 1)

GivesUpNever(retry) == FALSE

\* if (!retryOnFailure) return response / throw error
GivesUp(retry) == ~retry

FailoverExhaustedLastResult(last) == last

\* the throw after the failover loop
FailoverExhausted(last) == Thrown("AllFailed")

\* the options a caller passes: maxRetries is read only when retryOnFailure is set
CallOptions ==
    {[retryOnFailure |-> FALSE, maxRetries |-> Len(BACKEND_SERVERS)]}
    \cup [retryOnFailure : {TRUE}, maxRetries : 0..MaxRetriesOpt]

DefaultOptions == [retryOnFailure |-> TRUE, maxRetries |-> Len(BACKEND_SERVERS)]

\* call 0 is made with any options; the other calls are the application's, which
\* all leave retryOnFailure and maxRetries at their defaults
OptionsOf(c) == IF c = 0 THEN CallOptions ELSE {DefaultOptions}

IdleCall == [pc |-> "idle", sticky |-> NoServer, i |-> 0, retry |-> TRUE,
             maxRetries |-> Len(BACKEND_SERVERS), tried |-> <<>>, nfail |-> 0, result |-> NoResult]

\* the server of the request a call is waiting for
CurrentServer(c) == lb[c].tried[Len(lb[c].tried)]

\* fetchWithLoadBalancer up to its first await: pick the sticky server, send
LBStart(c, retry, maxRetries) ==
    /\ lb[c].pc = "idle"
    /\ LET g == GetStickyServer(selectedServer, currentServerIndex) IN
        /\ selectedServer' = g.sel
        /\ currentServerIndex' = g.idx
        /\ lb' = [lb EXCEPT ![c] = [pc |-> "sticky", sticky |-> g.server, i |-> 0,
                                    retry |-> retry, maxRetries |-> maxRetries,
                                    tried |-> <<g.server>>, nfail |-> 0,
                                    result |-> NoResult]]

\* entering the failover block: clearStickyServer, then the first loop test
EnterFailover(c, last) ==
    /\ selectedServer' = NoServer
    /\ IF 0 < LoopBound(lb[c].sticky, lb[c].maxRetries)
       THEN lb' = [lb EXCEPT ![c].pc = "failover", ![c].i = 0, ![c].nfail = @ + 1,
                             ![c].tried = Append(@, ServersToTry(lb[c].sticky)[1])]
       ELSE lb' = [lb EXCEPT ![c].pc = "done", ![c].nfail = @ + 1,
                             ![c].result = FailoverExhausted(last)]

\* the request to the sticky server settles
LBStickySettle(c, o) ==
    /\ lb[c].pc = "sticky"
    /\ LET r == FetchWithTimeout(lb[c].sticky, o) IN
        IF r.type = "response" /\ r.ok
        THEN /\ lb' = [lb EXCEPT ![c].pc = "done",
                                 ![c].result = r]
             /\ UNCHANGED selectedServer
        ELSE IF GivesUp(lb[c].retry)
             THEN /\ lb' = [lb EXCEPT ![c].pc = "done", ![c].nfail = @ + 1,
                                      ![c].result = r]
                  /\ UNCHANGED selectedServer
             ELSE EnterFailover(c, r)
    /\ UNCHANGED currentServerIndex

\* the request to a fallback server settles
LBFallbackSettle(c, o) ==
    /\ lb[c].pc = "failover"
    /\ LET s == CurrentServer(c)
           r == FetchWithTimeout(s, o) IN
        IF r.type = "response" /\ r.ok
        THEN /\ selectedServer' = s
             /\ lb' = [lb EXCEPT ![c].pc = "done",
                                 ![c].result = r]
        ELSE /\ UNCHANGED selectedServer
             /\ IF lb[c].i + 1 < LoopBound(lb[c].sticky, lb[c].maxRetries)
                THEN lb' = [lb EXCEPT ![c].i = @ + 1, ![c].nfail = @ + 1,
                                      ![c].tried = Append(@, ServersToTry(lb[c].sticky)[lb[c].i + 2])]
                ELSE lb' = [lb EXCEPT ![c].pc = "done", ![c].nfail = @ + 1,
                                      ![c].result = FailoverExhausted(r)]
    /\ UNCHANGED currentServerIndex

\* the caller takes the response or the error; the slot is free for the next call
LBReturn(c) ==
    /\ lb[c].pc = "done"
    /\ lb' = [lb EXCEPT ![c] = IdleCall]
    /\ UNCHANGED <<selectedServer, currentServerIndex>>

\* the origin apiUrl(path) puts before a relative path in the current state
ApiUrlOrigin == GetStickyServer(selectedServer, currentServerIndex).server

\* apiUrl(path) for a relative path
ApiUrl ==
    /\ LET g == GetStickyServer(selectedServer, currentServerIndex) IN
        /\ selectedServer' = g.sel
        /\ currentServerIndex' = g.idx
    /\ UNCHANGED lb

\* clearStickyServer() called by application code
ClearStickyServer ==
    /\ selectedServer' = NoServer
    /\ UNCHANGED <<currentServerIndex, lb>>

\* module load in the browser: API_BASE = getStickyServer() on whatever is stored
\* the module has been evaluated with `stored` under 'selectedServer'
Loaded(stored) ==
    /\ selectedServer = GetStickyServer(stored, 0).sel
    /\ currentServerIndex = GetStickyServer(stored, 0).idx
    /\ lb = [c \in Calls |-> IdleCall]

InitLB == \E stored \in {NoServer, StaleServer} \cup PoolSet : Loaded(stored)

LBStep ==
    \/ \E c \in Calls : \E opts \in OptionsOf(c) : LBStart(c, opts.retryOnFailure, opts.maxRetries)
    \/ \E c \in Calls, o \in FetchOutcomes : LBStickySettle(c, o)
    \/ \E c \in Calls, o \in FetchOutcomes : LBFallbackSettle(c, o)
    \/ \E c \in Calls : LBReturn(c)
    \/ ApiUrl
    \/ ClearStickyServer

-----------------------------------------------------------------------------
(* Checkout / payment flow, CheckoutModal *)

\* values of FileObject.backendFileId: undefined, strings, or a number the
\* backend returned as id
UndefinedId == "<undefined>"
NumberId == "<number 7>"
StringIds == {"", " ", "A", "B"}
IdValues == {UndefinedId, NumberId} \cup StringIds

IsString(v) == v \in StringIds

\* String.prototype.trim on the strings of the model
Trim(v) == IF v = " " THEN "" ELSE v

\* JavaScript truthiness of a backendFileId
Truthy(v) == v # UndefinedId /\ v # ""

\* String(v)
ToStr(v) == IF v = NumberId THEN "7" ELSE IF v = UndefinedId THEN "undefined" ELSE v

FileSeqs == UNION {[1..n -> [name : {"f1", "f2", "f3"}, backendFileId : IdValues]] : n \in 0..MaxFiles}

\* the file lists the parent can hand over: the k-th staged file is named fk
StagedFiles == {fs \in FileSeqs : \A k \in 1..Len(fs) : fs[k].name = <<"f1", "f2", "f3">>[k]}

Names == {"", " ", "Ann"}

NoError == [msg |-> "", names |-> <<>>]
Err(m) == [msg |-> m, names |-> <<>>]

\* files.map(f => f.backendFileId), files.map(f => f.name)
BackendIds(q) == [k \in 1..Len(q) |-> q[k].backendFileId]
FileNames(q) == [k \in 1..Len(q) |-> q[k].name]
SeqToSet(q) == {q[k] : k \in 1..Len(q)}

IsRegisteredIgnoringBlank(f) == IsString(f.backendFileId)

\* the filter of fileIdsRaw: typeof id === 'string' && id.trim().length > 0
IsRegistered(f) == IsString(f.backendFileId) /\ Trim(f.backendFileId) # ""

\* files.map(f => f.backendFileId).filter(...)
FileIdsRaw(fs) == BackendIds(SelectSeq(fs, IsRegistered))

\* files.filter(f => !f.backendFileId || String(f.backendFileId).trim().length === 0)
UnregisteredFiles(fs) ==
    SelectSeq(fs, LAMBDA f : ~Truthy(f.backendFileId) \/ Trim(ToStr(f.backendFileId)) = "")

\* the error thrown when fileIdsRaw.length !== files.length
RegistrationError(fs) ==
    LET pendingNames == FileNames(UnregisteredFiles(fs)) IN
    IF pendingNames # <<>>
    THEN [msg |-> "These files are still registering", names |-> pendingNames]
    ELSE Err("Some files are not registered yet")

\* err.message of what fetchWithLoadBalancer throws
ThrownMessage(r) ==
    CASE r.err = "AllFailed" -> "All backend servers failed"
      [] r.err = "TimeoutError" -> "Request timed out"
      [] OTHER -> "Failed to fetch"

\* err instanceof TimeoutError || message includes 'timeout' || includes 'network'
WantsRetry(isTimeoutError, m) ==
    isTimeoutError \/ m \in {"gateway timeout", "network unreachable",
                              "{\"error\":\"gateway timeout\"}"}

\* bodies of /order/create answers: success flag and error text
OrderBodies == [success : BOOLEAN, error : {"", "declined", "gateway timeout"}]

\* await createResp.text() of an answer carrying the body
ErrText(body) ==
    CASE body.error = "declined" -> "{\"error\":\"declined\"}"
      [] body.error = "gateway timeout" -> "{\"error\":\"gateway timeout\"}"
      [] OTHER -> "{}"

\* errJson.error || errJson.message || `Failed to create order (status)`
StructuredMessage(body) ==
    IF body.error # "" THEN body.error ELSE "Failed to create order"

\* the message thrown for an answer outside 2xx: the throw of the structured
\* message sits inside the try whose catch throws the raw text instead
ErrorAnswerMessage(body) ==
    IF ErrText(body) # "" THEN ErrText(body) ELSE "Failed to create order"

JsonFlag == {"true", "false", "absent"}

\* bodies of /order/verify-payment answers
VerifyBodies == [Success : JsonFlag, success : JsonFlag, error : {"", "signature mismatch"}]

VerifyAcceptsAnyBody(b) == TRUE

\* !(!verify.Success && !verify.success)
VerifyAccepts(b) == b.Success = "true" \/ b.success = "true"

IdlePay == [pc |-> "idle", method |-> "none"]

\* history of one attempt: what was invoked, which FileIds went out, what the
\* verification answered, which onSuccess calls were made
NoAttempt == [started |-> FALSE, method |-> "none", nameBlank |-> FALSE, sent |-> FALSE,
              fileIds |-> {}, verify |-> "none", success |-> "none", successes |-> 0]

StartedAttempt(method) == [NoAttempt EXCEPT !.started = TRUE, !.method = method]

\* what the verification of the attempt answered
VerifyOutcome(r, body) ==
    IF r.type = "response" /\ r.ok /\ (body.Success = "true" \/ body.success = "true")
    THEN "ok" ELSE "failed"

\* the catch block of handlePaymentMethod
CatchCheckout(e, isTimeoutError, method, retryShown) ==
    /\ error' = e
    /\ IF WantsRetry(isTimeoutError, e.msg)
       THEN showRetry' = TRUE /\ lastAttempt' = method
       ELSE showRetry' = retryShown /\ UNCHANGED lastAttempt
    /\ isProcessing' = FALSE

\* loadRazorpay resolved: construct the widget and open it
OpenWidget(method) ==
    /\ pay' = [pay EXCEPT !.pc = "widget"]
    /\ UNCHANGED <<isProcessing, error, showRetry, lastAttempt>>

\* handlePaymentMethod(method) up to its first await
HandlePaymentMethod(method, retryShown) ==
    IF Trim(customerName) = ""
    THEN /\ error' = Err("Please enter your name to continue")
         /\ showRetry' = retryShown
         /\ att' = [StartedAttempt(method) EXCEPT !.nameBlank = TRUE]
         /\ UNCHANGED <<lbVars, isProcessing, lastAttempt, pay>>
    ELSE IF Len(FileIdsRaw(files)) = 0
    THEN /\ CatchCheckout(Err("No uploaded files registered"), FALSE, method, retryShown)
         /\ att' = StartedAttempt(method)
         /\ UNCHANGED <<lbVars, pay>>
    ELSE IF Len(FileIdsRaw(files)) # Len(files)
    THEN /\ CatchCheckout(RegistrationError(files), FALSE, method, retryShown)
         /\ att' = StartedAttempt(method)
         /\ UNCHANGED <<lbVars, pay>>
    ELSE /\ LBStart(0, DefaultOptions.retryOnFailure, DefaultOptions.maxRetries)
         /\ pay' = [pc |-> "creating", method |-> method]
         /\ isProcessing' = TRUE
         /\ error' = NoError
         /\ showRetry' = retryShown
         /\ att' = [StartedAttempt(method) EXCEPT !.sent = TRUE,
                                                  !.fileIds = SeqToSet(FileIdsRaw(files))]
         /\ UNCHANGED lastAttempt

\* a payment button is pressed
ClickPay(method) ==
    /\ pay.pc = "idle"
    /\ ~isProcessing
    /\ HandlePaymentMethod(method, showRetry)
    /\ UNCHANGED <<files, customerName, razorpayLoaded>>

\* handleRetry
HandleRetry ==
    /\ pay.pc = "idle"
    /\ error # NoError /\ showRetry
    /\ lastAttempt # "none"
    /\ HandlePaymentMethod(lastAttempt, FALSE)
    /\ UNCHANGED <<files, customerName, razorpayLoaded>>

\* updateCustomerName
UpdateCustomerName(n) ==
    /\ n # customerName
    /\ customerName' = n
    /\ UNCHANGED <<lbVars, files, isProcessing, error, showRetry, lastAttempt, pay,
                   razorpayLoaded, att>>

\* the request of the running checkout call settles inside fetchWithLoadBalancer
CheckoutFetchStep ==
    /\ \E o \in FetchOutcomes :
          /\ LBStickySettle(0, o) \/ LBFallbackSettle(0, o)
          /\ outs' = IF lb[0].pc = "sticky" THEN <<o>> ELSE Append(outs, o)
    /\ UNCHANGED coVars

IsCashNever(method) == FALSE

\* if (method === 'cash')
IsCash(method) == method = "cash"

\* handlePaymentMethod continues after the await of /order/create
OrderCreateSettles(body) ==
    /\ pay.pc = "creating"
    /\ lb[0].pc = "done"
    /\ LBReturn(0)
    /\ LET r == lb[0].result IN
        IF r.type = "error"
        THEN /\ CatchCheckout(Err(ThrownMessage(r)), r.err = "TimeoutError", pay.method, showRetry)
             /\ pay' = IdlePay
             /\ UNCHANGED <<att, razorpayLoaded>>
        ELSE IF ~r.ok
        THEN /\ CatchCheckout(Err(ErrorAnswerMessage(body)), FALSE, pay.method, showRetry)
             /\ pay' = IdlePay
             /\ UNCHANGED <<att, razorpayLoaded>>
        ELSE IF ~body.success
        THEN /\ CatchCheckout(Err(IF body.error # "" THEN body.error
                                   ELSE "Order creation failed"), FALSE, pay.method, showRetry)
             /\ pay' = IdlePay
             /\ UNCHANGED <<att, razorpayLoaded>>
        ELSE IF IsCash(pay.method)
        THEN /\ isProcessing' = FALSE
             /\ att' = [att EXCEPT !.success = "cash", !.successes = @ + 1]
             /\ pay' = [pay EXCEPT !.pc = "closed"]
             /\ UNCHANGED <<error, showRetry, lastAttempt, razorpayLoaded>>
        ELSE IF razorpayLoaded
        THEN /\ OpenWidget(pay.method)
             /\ UNCHANGED <<att, razorpayLoaded>>
        ELSE /\ pay' = [pay EXCEPT !.pc = "loadingScript"]
             /\ UNCHANGED <<isProcessing, error, showRetry, lastAttempt, att, razorpayLoaded>>
    /\ UNCHANGED <<files, customerName>>

\* script.onload: the checkout script ran; it may or may not have defined Razorpay
ScriptLoaded(defined) ==
    /\ pay.pc = "loadingScript"
    /\ razorpayLoaded' = defined
    /\ IF defined
       THEN OpenWidget(pay.method)
       ELSE /\ CatchCheckout(Err("Razorpay unavailable"), FALSE, pay.method, showRetry)
            /\ pay' = IdlePay
    /\ UNCHANGED <<lbVars, files, customerName, att>>

\* script.onerror
ScriptFailed ==
    /\ pay.pc = "loadingScript"
    /\ CatchCheckout(Err("Failed to load Razorpay"), FALSE, pay.method, showRetry)
    /\ pay' = IdlePay
    /\ UNCHANGED <<lbVars, files, customerName, razorpayLoaded, att>>

\* the widget calls options.handler: the verification request goes out
WidgetPaid ==
    /\ pay.pc = "widget"
    /\ LBStart(0, DefaultOptions.retryOnFailure, DefaultOptions.maxRetries)
    /\ pay' = [pay EXCEPT !.pc = "verifying"]
    /\ UNCHANGED <<files, customerName, isProcessing, error, showRetry, lastAttempt,
                   razorpayLoaded, att>>

\* the user closes the widget; no callback of the component is registered for that
WidgetDismissed ==
    /\ pay.pc = "widget"
    /\ pay' = [pay EXCEPT !.pc = "dismissed"]
    /\ UNCHANGED <<lbVars, files, customerName, isProcessing, error, showRetry,
                   lastAttempt, razorpayLoaded, att>>

\* the Razorpay handler continues after the await of /order/verify-payment
VerifySettles(body) ==
    /\ pay.pc = "verifying"
    /\ lb[0].pc = "done"
    /\ LBReturn(0)
    /\ LET r == lb[0].result IN
        IF r.type = "error"
        THEN /\ error' = Err(ThrownMessage(r))
             /\ isProcessing' = FALSE
             /\ pay' = IdlePay
             /\ att' = [att EXCEPT !.verify = VerifyOutcome(r, body)]
        ELSE IF ~r.ok
        THEN /\ error' = Err("Payment verification failed: response text")
             /\ isProcessing' = FALSE
             /\ pay' = IdlePay
             /\ att' = [att EXCEPT !.verify = VerifyOutcome(r, body)]
        ELSE IF ~VerifyAccepts(body)
        THEN /\ error' = Err(IF body.error # "" THEN body.error
                              ELSE "Payment verification failed")
             /\ isProcessing' = FALSE
             /\ pay' = IdlePay
             /\ att' = [att EXCEPT !.verify = VerifyOutcome(r, body)]
        ELSE /\ isProcessing' = FALSE
             /\ pay' = [pay EXCEPT !.pc = "closed"]
             /\ att' = [att EXCEPT !.success = "online", !.successes = @ + 1,
                                   !.verify = VerifyOutcome(r, body)]
             /\ UNCHANGED error
    /\ UNCHANGED <<files, customerName, showRetry, lastAttempt, razorpayLoaded>>

\* no checkout modal is mounted
CheckoutClosed ==
    /\ files = <<>>
    /\ customerName = ""
    /\ isProcessing = FALSE
    /\ error = NoError
    /\ showRetry = FALSE
    /\ lastAttempt = "none"
    /\ pay = IdlePay
    /\ razorpayLoaded = FALSE
    /\ att = NoAttempt

-----------------------------------------------------------------------------
(* File registration, registerFileWithBackend of FileUpload *)

NoRegistration == [pc |-> "idle", sent |-> <<>>, status |-> "uploading", error |-> "",
                   backendFileId |-> ""]

\* FileUpload and its UploadProgressModal after mount, and Home's showCheckout:
\* files is files.length, r2[i] whether file i has r2Url and r2Key, tasks[i] the
\* upload tasks of file i awaiting the R2 upload and the registration, uploads
\* the status column of uploadProgress, show is showUploadProgress
NoUpload == [reg |-> NoRegistration, files |-> 0, r2 |-> <<>>, tasks |-> <<>>,
             uploads |-> <<>>, show |-> FALSE, allCompleted |-> FALSE,
             showCheckout |-> FALSE]

\* data?.fileId || data?.FileId || ... : the identifier found in the answer
ReturnedIds == {"", "A"}

\* fetchWithLoadBalancer('/customer/upload', ...) up to its first await
SendUpload ==
    LET g == GetStickyServer(selectedServer, currentServerIndex) IN
    /\ selectedServer' = g.sel
    /\ currentServerIndex' = g.idx
    /\ lb' = [lb EXCEPT ![0] = [pc |-> "sticky", sticky |-> g.server, i |-> 0,
                                retry |-> DefaultOptions.retryOnFailure,
                                maxRetries |-> DefaultOptions.maxRetries,
                                tried |-> <<g.server>>, nfail |-> 0,
                                result |-> NoResult]]

\* registerFileWithBackend up to the await of the multipart POST; a throw ends
\* in the caller's catch, which marks the progress row
RegisterStart(hasSession) ==
    /\ up.reg.pc = "idle"
    /\ lb[0].pc = "idle"
    /\ IF ~hasSession
       THEN /\ up' = [up EXCEPT !.reg.pc = "failed", !.reg.status = "error",
                                !.reg.error = "Missing session"]
            /\ UNCHANGED <<lbVars, outs>>
       ELSE /\ SendUpload
            /\ up' = [up EXCEPT !.reg.pc = "multipart", !.reg.status = "registering",
                                !.reg.sent = <<"multipart">>]
            /\ outs' = <<>>
    /\ UNCHANGED <<coVars, se, tab2, libVars>>

\* an underlying request of the registration settles inside fetchWithLoadBalancer
RegisterFetchSettle(o) ==
    /\ up.reg.pc \in {"multipart", "json"}
    /\ LBStickySettle(0, o) \/ LBFallbackSettle(0, o)
    /\ outs' = Append(outs, o)
    /\ UNCHANGED <<coVars, se, up, tab2, libVars>>

\* the text of the answer fetchWithLoadBalancer returned
RespIsMinRate400 == outs # <<>> /\ outs[Len(outs)] = "minRate400"

\* registerFileWithBackend after the await of a POST /customer/upload
RegisterContinue(returnedId) ==
    /\ up.reg.pc \in {"multipart", "json"}
    /\ lb[0].pc = "done"
    /\ LET r == lb[0].result IN
        IF r.type = "error"
        THEN /\ up' = [up EXCEPT !.reg.pc = "failed", !.reg.status = "error",
                                 !.reg.error = ThrownMessage(r)]
             /\ LBReturn(0)
        ELSE IF ~r.ok /\ up.reg.pc = "multipart" /\ RespIsMinRate400
        THEN /\ SendUpload
             /\ up' = [up EXCEPT !.reg.pc = "json", !.reg.sent = Append(@, "json")]
        ELSE IF ~r.ok
        THEN /\ up' = [up EXCEPT !.reg.pc = "failed", !.reg.status = "error",
                                 !.reg.error = "Failed to register file"]
             /\ LBReturn(0)
        ELSE /\ up' = [up EXCEPT !.reg.pc = "completed", !.reg.status = "completed",
                                 !.reg.backendFileId = returnedId]
             /\ LBReturn(0)
    /\ UNCHANGED <<coVars, se, outs, tab2, libVars>>

\* the row is retried or another file is registered
RegisterAgain ==
    /\ up.reg.pc \in {"failed", "completed"}
    /\ up' = [up EXCEPT !.reg = NoRegistration]
    /\ UNCHANGED <<lbVars, coVars, se, outs, tab2, libVars>>

-----------------------------------------------------------------------------
(* Upload batch: handleProceedToCheckout, handleRetryUpload and the effects of
   UploadProgressModal *)

NoTasks == [r2 |-> 0, reg |-> 0]

TasksOf(b, i) == b.tasks[i].r2 + b.tasks[i].reg

\* uploads.every(upload => upload.status === 'completed' || upload.status === 'error')
EveryCompletedOrError(uploads) ==
    \A i \in 1..Len(uploads) : uploads[i] \in {"completed", "error"}

\* uploads.some(upload => upload.status === 'error')
HasErrors(uploads) == \E i \in 1..Len(uploads) : uploads[i] = "error"

\* handleUploadComplete
HandleUploadComplete(b) == [b EXCEPT !.show = FALSE, !.showCheckout = TRUE]

\* the three effects of UploadProgressModal after the render of b that followed
\* the render of prev; each reads the values of the render of b
ModalEffects(b, prev) ==
    LET opened == b.show /\ ~prev.show
        emptied == Len(b.uploads) # Len(prev.uploads) /\ Len(b.uploads) = 0
        completes == /\ EveryCompletedOrError(b.uploads)
                     /\ Len(b.uploads) > 0
                     /\ ~b.allCompleted
        flag == IF completes THEN TRUE
                ELSE IF opened \/ emptied THEN FALSE
                ELSE b.allCompleted
        b1 == [b EXCEPT !.allCompleted = flag]
    IN  IF completes /\ ~HasErrors(b.uploads) THEN HandleUploadComplete(b1) ELSE b1

\* renders and effects until no state changes
RECURSIVE Rendered(_, _)
Rendered(b, prev) ==
    LET n == ModalEffects(b, prev) IN
    IF n = b THEN b ELSE Rendered(n, b)

\* setUploadProgress(prev => prev.map(item => item.id === id ? {...item, status} : item))
SetStatus(uploads, i, st) ==
    [j \in 1..Len(uploads) |-> IF j = i THEN st ELSE uploads[j]]

\* files are staged in the empty drop zone
StageFiles(n) ==
    /\ up.files = 0
    /\ ~up.show /\ ~up.showCheckout
    /\ up' = [up EXCEPT !.files = n,
                        !.r2 = [i \in 1..n |-> FALSE],
                        !.tasks = [i \in 1..n |-> NoTasks]]
    /\ UNCHANGED <<lbVars, coVars, se, outs, tab2, libVars>>

\* Home.handleCheckout with files staged: startUpload, that is
\* handleProceedToCheckout, up to its first await
StartUpload ==
    /\ ~up.show /\ ~up.showCheckout
    /\ up.files > 0
    /\ \A i \in 1..up.files : TasksOf(up, i) < MaxTasks
    /\ up' = Rendered([up EXCEPT !.show = TRUE,
                                 !.uploads = [i \in 1..up.files |-> "uploading"],
                                 !.tasks = [i \in 1..up.files |->
                                               [@[i] EXCEPT !.r2 = @ + 1]]], up)
    /\ UNCHANGED <<lbVars, coVars, se, outs, tab2, libVars>>

\* uploadToR2 of a task of file i settles; on success the file gets its URL and
\* registerFileWithBackend runs up to its request
R2Settles(i, ok) ==
    /\ i \in 1..up.files
    /\ up.tasks[i].r2 > 0
    /\ LET rows == i \in 1..Len(up.uploads) IN
       up' = Rendered(
               IF ok
               THEN [up EXCEPT !.r2[i] = TRUE,
                               !.tasks[i] = [r2 |-> @.r2 - 1, reg |-> @.reg + 1],
                               !.uploads = IF rows THEN SetStatus(@, i, "registering") ELSE @]
               ELSE [up EXCEPT !.tasks[i].r2 = @ - 1,
                               !.uploads = IF rows THEN SetStatus(@, i, "error") ELSE @],
               up)
    /\ UNCHANGED <<lbVars, coVars, se, outs, tab2, libVars>>

\* registerFileWithBackend of a task of file i ends
RegistrationSettles(i, ok) ==
    /\ i \in 1..up.files
    /\ up.tasks[i].reg > 0
    /\ LET rows == i \in 1..Len(up.uploads) IN
       up' = Rendered([up EXCEPT !.tasks[i].reg = @ - 1,
                                 !.uploads = IF rows
                                             THEN SetStatus(@, i, IF ok THEN "completed"
                                                                  ELSE "error")
                                             ELSE @], up)
    /\ UNCHANGED <<lbVars, coVars, se, outs, tab2, libVars>>

\* the Retry button of an errored row: handleRetryUpload(id) up to its await
HandleRetryUpload(i) ==
    /\ up.show
    /\ i \in 1..Len(up.uploads)
    /\ up.uploads[i] = "error"
    /\ TasksOf(up, i) < MaxTasks
    /\ up' = Rendered(
               IF up.r2[i]
               THEN [up EXCEPT !.uploads = SetStatus(@, i, "registering"),
                               !.tasks[i].reg = @ + 1]
               ELSE [up EXCEPT !.uploads = SetStatus(@, i, "uploading"),
                               !.tasks[i].r2 = @ + 1],
               up)
    /\ UNCHANGED <<lbVars, coVars, se, outs, tab2, libVars>>

\* the close button of the progress dialog, rendered when allCompleted
CloseProgress ==
    /\ up.show /\ up.allCompleted
    /\ up' = Rendered([up EXCEPT !.show = FALSE], up)
    /\ UNCHANGED <<lbVars, coVars, se, outs, tab2, libVars>>

\* CheckoutModal's onClose
CloseCheckout ==
    /\ up.showCheckout
    /\ up' = Rendered([up EXCEPT !.showCheckout = FALSE], up)
    /\ UNCHANGED <<lbVars, coVars, se, outs, tab2, libVars>>

\* handleCheckoutSuccess: the checkout closes and FileUpload.reset() runs; tasks
\* still running belong to files no longer staged
HandleCheckoutSuccess ==
    /\ up.showCheckout
    /\ up' = Rendered([up EXCEPT !.showCheckout = FALSE, !.files = 0, !.r2 = <<>>,
                                 !.tasks = <<>>, !.uploads = <<>>, !.show = FALSE], up)
    /\ UNCHANGED <<lbVars, coVars, se, outs, tab2, libVars>>

-----------------------------------------------------------------------------
(* Session manager, useSessionManager and the singletons of lib/singletons *)

SESSION_DURATION == 24 * 60 * 60 * 1000

\* the instants of the model; the session found in storage at page load was
\* created at instant 0
TimePoints == {SESSION_DURATION - 1, SESSION_DURATION, SESSION_DURATION + 1}

Insts == 1..NumInst
Runs == 1..MaxRuns
UUIDs == 0..MaxSessions

NoSession == [uuid |-> -1, createdAt |-> 0]
Session(u, t) == [uuid |-> u, createdAt |-> t]

UnmountedInst == [session |-> NoSession, loading |-> TRUE, error |-> "",
                  hasInitializedRef |-> FALSE, initInFlightRef |-> FALSE]

\* what validateSessionWithBackend hands to initializeSession: { ok, data }
NoValidation == [called |-> FALSE, ok |-> FALSE, success |-> FALSE, valid |-> FALSE]
Validation(isOk, success, valid) ==
    [called |-> TRUE, ok |-> isOk, success |-> success, valid |-> valid]

FreeRun == [pc |-> "free", inst |-> 0, stored |-> NoSession, joined |-> 0,
            viaInit |-> FALSE, validation |-> NoValidation]

\* how the awaited fetchWithLoadBalancer('/customer/validate-session') ends: it
\* throws, or returns a 2xx response with a body
ValidateOutcomes ==
    [thrown : {TRUE}, success : {FALSE}, valid : {FALSE}]
    \cup [thrown : {FALSE}, success : BOOLEAN, valid : BOOLEAN]

\* how the create-session request ends: it throws, the body is not a usable
\* session, or the body carries a new session
CreateOutcomes == {"thrown", "unusable", "session"}

\* one request or outcome observed in the last step
Event(type, st, r, v) ==
    [type |-> type, run |-> r, inst |-> st.runs[r].inst, stored |-> st.runs[r].stored,
     validation |-> v, shopOpen |-> st.shopOpen]

\* sessionAge < SESSION_DURATION
IsSessionValid(session, now) == now - session.createdAt < SESSION_DURATION

\* localStorage.removeItem(STORAGE_KEY) by getStoredSession
RemoveItem(st) ==
    [st EXCEPT !.storage = NoSession,
               !.events = @ \cup {[type |-> "removeItem", run |-> 0, inst |-> 0,
                                    stored |-> st.storage, validation |-> NoValidation,
                                    shopOpen |-> st.shopOpen]}]

GetStoredSessionKeepsExpired(st) == [val |-> st.storage, st |-> st]

\* getStoredSession: the session read, and storage after the expiry check
GetStoredSession(st) ==
    IF st.storage = NoSession
    THEN [val |-> NoSession, st |-> st]
    ELSE IF st.now - st.storage.createdAt < SESSION_DURATION
    THEN [val |-> st.storage, st |-> st]
    ELSE [val |-> NoSession, st |-> RemoveItem(st)]

\* the 'session-initialized' listener of instance i
OnSessionInitialized(st, i) ==
    LET g == GetStoredSession(st) IN
    [g.st EXCEPT !.inst[i].session = IF g.val # NoSession THEN g.val ELSE @,
                 !.inst[i].loading = FALSE]

RECURSIVE DispatchSessionInitialized(_, _)
\* window.dispatchEvent(new CustomEvent('session-initialized')): the listeners
\* run in the order they were added
DispatchSessionInitialized(st, q) ==
    IF q = <<>> THEN st
    ELSE DispatchSessionInitialized(OnSessionInitialized(st, Head(q)), Tail(q))

\* SessionInitManager.setInitialized(true) followed by the broadcast
MarkInitialized(st) ==
    DispatchSessionInitialized(
        [st EXCEPT !.inited = TRUE,
                   !.events = @ \cup {[type |-> "sessionInitialized", run |-> 0, inst |-> 0,
                                        stored |-> st.storage, validation |-> NoValidation,
                                        shopOpen |-> st.shopOpen]}],
        st.mounted)

\* initializeSession returns: its finally block and the finally callbacks that
\* onShopOpen attached to the promise
EndRun(st, r) ==
    LET i == st.runs[r].inst IN
    [st EXCEPT !.runs[r] = FreeRun,
               !.inst[i].loading = FALSE,
               !.inst[i].initInFlightRef = IF st.runs[r].viaInit THEN FALSE ELSE @,
               !.initP = IF st.runs[r].viaInit THEN 0 ELSE @]

\* the catch block of initializeSession
InitCatch(st, r, msg) ==
    EndRun([st EXCEPT !.inst[st.runs[r].inst].error = msg], r)

\* validateSessionWithBackend up to its await, called by run r
ValidateCall(st, r, uuid) ==
    IF st.validateP[uuid] # 0
    THEN [st EXCEPT !.runs[r].pc = "validating",
                    !.runs[r].joined = st.validateP[uuid],
                    !.joiners[st.validateP[uuid]] = Append(@, r),
                    !.validateP[uuid] = 0]
    ELSE [st EXCEPT !.runs[r].pc = "validating",
                    !.runs[r].joined = r,
                    !.validateP[uuid] = r,
                    !.events = @ \cup {Event("postValidate", st, r, NoValidation)}]

\* createNewSession up to its await, called by run r
CreateCall(st, r) ==
    IF st.createP # 0
    THEN [st EXCEPT !.runs[r].pc = "creating",
                    !.runs[r].joined = st.createP,
                    !.joiners[st.createP] = Append(@, r),
                    !.createP = 0]
    ELSE [st EXCEPT !.runs[r].pc = "creating",
                    !.runs[r].joined = r,
                    !.createP = r,
                    !.events = @ \cup {Event("postCreate", st, r, st.runs[r].validation)}]

\* initializeSession up to its first await, as run r of instance i
InitializeSession(st, i, r, viaInit) ==
    LET g == GetStoredSession([st EXCEPT !.inst[i].loading = TRUE, !.inst[i].error = ""])
        st1 == [g.st EXCEPT !.runs[r] = [FreeRun EXCEPT !.inst = i, !.stored = g.val,
                                                         !.viaInit = viaInit],
                            !.started = r]
    IN IF g.val # NoSession /\ IsSessionValid(g.val, st.now)
       THEN ValidateCall(st1, r, g.val.uuid)
       ELSE CreateCall(st1, r)


OnShopOpenUnguarded(st, i) ==
    IF st.started = MaxRuns
    THEN [st EXCEPT !.overflow = TRUE]
    ELSE LET r == st.started + 1
             st1 == [st EXCEPT !.inst[i].hasInitializedRef = TRUE,
                               !.inst[i].initInFlightRef = TRUE]
         IN [InitializeSession(st1, i, r, TRUE) EXCEPT !.initP = r]

\* the 'shop-status-open' listener of instance i
OnShopOpen(st, i) ==
    IF \/ st.inst[i].initInFlightRef \/ st.initP # 0
       \/ st.inst[i].hasInitializedRef \/ st.inited
    THEN LET g == GetStoredSession(st) IN
         IF g.val # NoSession
         THEN [g.st EXCEPT !.inst[i].session = g.val, !.inst[i].loading = FALSE]
         ELSE g.st
    ELSE IF st.started = MaxRuns
    THEN [st EXCEPT !.overflow = TRUE]
    ELSE LET r == st.started + 1
             st1 == [st EXCEPT !.inst[i].hasInitializedRef = TRUE,
                               !.inst[i].initInFlightRef = TRUE]
         IN [InitializeSession(st1, i, r, TRUE) EXCEPT !.initP = r]

RECURSIVE DispatchShopOpen(_, _)
\* window.dispatchEvent(new CustomEvent('shop-status-open'))
DispatchShopOpen(st, q) ==
    IF q = <<>> THEN st
    ELSE DispatchShopOpen(OnShopOpen(st, Head(q)), Tail(q))

\* the branch initializeSession takes on the validation result
ValidationBranch(v) ==
    IF v.ok /\ v.success
    THEN IF v.valid THEN "adopt" ELSE "recreate"
    ELSE "keep"

\* initializeSession after the await of validateSessionWithBackend
AfterValidation(st, r, v) ==
    LET i == st.runs[r].inst
        stored == st.runs[r].stored
    IN CASE ValidationBranch(v) = "adopt" ->
              EndRun(MarkInitialized([st EXCEPT !.inst[i].session = stored]), r)
         [] ValidationBranch(v) = "recreate" ->
              CreateCall([st EXCEPT !.storage = NoSession,
                                    !.inst[i].session = NoSession,
                                    !.runs[r].validation = v], r)
         [] OTHER ->
              EndRun(MarkInitialized(
                  [st EXCEPT !.inst[i].session = stored,
                             !.events = @ \cup {Event("validationFailed", st, r, v)}]), r)

\* initializeSession after the await of createNewSession
AfterCreate(st, r, new) ==
    LET i == st.runs[r].inst IN
    IF new # NoSession
    THEN EndRun(MarkInitialized([st EXCEPT !.inst[i].session = new, !.storage = new]), r)
    ELSE EndRun([st EXCEPT !.inst[i].error =
                     IF st.runs[r].validation.called
                     THEN "Failed to create a new session after validation indicated invalid."
                     ELSE "Unable to create a new session at this time."], r)

RECURSIVE ResumeValidateJoiners(_, _, _)
\* the callers that returned the in-flight validation promise resume in the
\* order in which they joined
ResumeValidateJoiners(st, q, o) ==
    IF q = <<>> THEN st
    ELSE ResumeValidateJoiners(
            IF o.thrown
            THEN InitCatch([st EXCEPT !.events = @ \cup
                               {Event("validationFailed", st, Head(q), Validation(FALSE, FALSE, FALSE))}],
                           Head(q), "All backend servers failed")
            ELSE AfterValidation(st, Head(q), Validation(TRUE, o.success, o.valid)),
            Tail(q), o)

RECURSIVE ResumeCreateJoiners(_, _, _, _)
ResumeCreateJoiners(st, q, o, new) ==
    IF q = <<>> THEN st
    ELSE ResumeCreateJoiners(
            IF o = "thrown"
            THEN InitCatch(st, Head(q), "All backend servers failed")
            ELSE AfterCreate(st, Head(q), new),
            Tail(q), o, new)

\* every action starts from the state with the observations of the last step dropped
Cur == [se EXCEPT !.events = {}]

SetShopOpenDispatchFirst(st, isOpen) ==
    IF isOpen
    THEN [DispatchShopOpen(st, st.mounted) EXCEPT !.shopOpen = TRUE]
    ELSE [st EXCEPT !.shopOpen = FALSE]

\* ShopStatusManager.setShopOpen(isOpen)
SetShopOpenTo(st, isOpen) ==
    IF isOpen
    THEN DispatchShopOpen([st EXCEPT !.shopOpen = TRUE], st.mounted)
    ELSE [st EXCEPT !.shopOpen = FALSE]

\* ShopStatusManager.setShopOpen(true), by ShopGuard or StatusMonitor
SetShopOpen ==
    /\ LET st == SetShopOpenTo(Cur, TRUE) IN
        /\ ~st.overflow
        /\ se' = st
    /\ UNCHANGED <<lbVars, coVars, outs, up, tab2, libVars>>

\* ShopStatusManager.setShopOpen(false)
SetShopClosed ==
    /\ se.shopOpen
    /\ se' = SetShopOpenTo(Cur, FALSE)
    /\ UNCHANGED <<lbVars, coVars, outs, up, tab2, libVars>>

IsMounted(i) == \E k \in 1..Len(se.mounted) : se.mounted[k] = i

\* a component using the hook mounts: first render and the mount effect
Mount(i) ==
    /\ ~IsMounted(i)
    /\ LET st0 == [Cur EXCEPT !.inst[i] = [UnmountedInst EXCEPT !.loading = ~se.inited]]
           st1 == IF st0.shopOpen /\ ~st0.inst[i].hasInitializedRef /\ ~st0.inited
                  THEN OnShopOpen(st0, i) ELSE st0
           g == GetStoredSession(st1)
           st2 == IF st1.inited
                  THEN [g.st EXCEPT !.inst[i].session = IF g.val # NoSession THEN g.val ELSE @,
                                    !.inst[i].loading = FALSE]
                  ELSE st1
       IN /\ ~st2.overflow
          /\ se' = [st2 EXCEPT !.mounted = Append(@, i)]
    /\ UNCHANGED <<lbVars, coVars, outs, up, tab2, libVars>>

\* handleRefresh, the hook's refresh()
HandleRefresh(i) ==
    /\ IsMounted(i)
    /\ se.started < MaxRuns
    /\ se' = InitializeSession([Cur EXCEPT !.inst[i].hasInitializedRef = FALSE,
                                           !.inited = FALSE],
                               i, se.started + 1, FALSE)
    /\ UNCHANGED <<lbVars, coVars, outs, up, tab2, libVars>>

\* clearSession, as exported by the hook
ClearSession(i) ==
    /\ IsMounted(i)
    /\ se' = [Cur EXCEPT !.storage = NoSession, !.inst[i].session = NoSession]
    /\ UNCHANGED <<lbVars, coVars, outs, up, tab2, libVars>>

\* refreshSession, as exported by the hook: refreshStoredSession(session)
RefreshSession(i) ==
    /\ IsMounted(i)
    /\ se.inst[i].session # NoSession
    /\ se' = [Cur EXCEPT !.inst[i].session = [@ EXCEPT !.createdAt = se.now],
                         !.storage = [se.inst[i].session EXCEPT !.createdAt = se.now]]
    /\ UNCHANGED <<lbVars, coVars, outs, up, tab2, libVars>>

\* the validate-session request issued by run q settles
ValidateSettles(q, o) ==
    /\ se.runs[q].pc = "validating" /\ se.runs[q].joined = q
    /\ LET uuid == se.runs[q].stored.uuid
           st0 == [Cur EXCEPT !.joiners[q] = <<>>, !.validateP[uuid] = 0]
           v == IF o.thrown THEN Validation(FALSE, FALSE, FALSE)
                ELSE Validation(TRUE, o.success, o.valid)
       IN se' = ResumeValidateJoiners(AfterValidation(st0, q, v), se.joiners[q], o)
    /\ UNCHANGED <<lbVars, coVars, outs, up, tab2, libVars>>

\* the create-session request issued by run q settles
CreateSettles(q, o) ==
    /\ se.runs[q].pc = "creating" /\ se.runs[q].joined = q
    /\ o = "session" => se.nextId < MaxSessions
    /\ LET new == IF o = "session" THEN Session(se.nextId + 1, se.now) ELSE NoSession
           st0 == [Cur EXCEPT !.joiners[q] = <<>>, !.createP = 0,
                              !.nextId = IF o = "session" THEN @ + 1 ELSE @]
       IN se' = ResumeCreateJoiners(AfterCreate(st0, q, new), se.joiners[q], o, new)
    /\ UNCHANGED <<lbVars, coVars, outs, up, tab2, libVars>>

\* time passes
Tick(t) ==
    /\ t > se.now
    /\ se' = [Cur EXCEPT !.now = t]
    /\ UNCHANGED <<lbVars, coVars, outs, up, tab2, libVars>>

\* the session manager's state when the page has loaded at instant t with
\* `stored` in localStorage and before any component has mounted
PageLoad(stored, t) ==
    [shopOpen |-> FALSE, inited |-> FALSE, initP |-> 0, createP |-> 0,
     validateP |-> [u \in UUIDs |-> 0], storage |-> stored,
     now |-> t, nextId |-> 0, mounted |-> <<>>,
     inst |-> [i \in Insts |-> UnmountedInst],
     runs |-> [r \in Runs |-> FreeRun],
     joiners |-> [r \in Runs |-> <<>>],
     started |-> 0, events |-> {}, overflow |-> FALSE]

\* no component using the hook is on the page
NoSessionManager == se = PageLoad(NoSession, SESSION_DURATION - 1)

\* no other tab of the site is open
NoSecondTab == tab2 = PageLoad(NoSession, SESSION_DURATION - 1)

\* page load: storage is empty or holds the session of an earlier visit
InitSession ==
    /\ Loaded(NoServer)
    /\ CheckoutClosed
    /\ outs = <<>>
    /\ up = NoUpload /\ NoLibrary /\ NoSecondTab
    /\ \E stored \in {NoSession, Session(0, 0)}, t \in TimePoints : se = PageLoad(stored, t)

NextSession ==
    \/ SetShopOpen
    \/ \E i \in Insts : Mount(i)
    \/ \E i \in Insts : HandleRefresh(i)
    \/ \E i \in Insts : ClearSession(i)
    \/ \E i \in Insts : RefreshSession(i)
    \/ \E q \in Runs, o \in ValidateOutcomes : ValidateSettles(q, o)
    \/ \E q \in Runs, o \in CreateOutcomes : CreateSettles(q, o)
    \/ \E t \in TimePoints : Tick(t)

SpecSession == InitSession /\ [][NextSession]_vars

\* the shop-status singleton under both calls of setShopOpen
NextShop ==
    \/ SetShopOpen
    \/ SetShopClosed
    \/ \E i \in Insts : Mount(i)
    \/ \E q \in Runs, o \in ValidateOutcomes : ValidateSettles(q, o)
    \/ \E q \in Runs, o \in CreateOutcomes : CreateSettles(q, o)

SpecShop == InitSession /\ [][NextShop]_vars

\* what a shop-status check reports in the step
StatusEvent(type, st) ==
    [type |-> type, run |-> 0, inst |-> 0, stored |-> NoSession,
     validation |-> NoValidation, shopOpen |-> st.shopOpen]

\* how a /customer/shop-status check ends: the shop is open, it is closed, or
\* the request failed
StatusAnswers == {"open", "closed", "failed"}

\* ShopGuard.check: nothing is asked when the shop is already confirmed open;
\* only an open answer reaches setShopOpen
ShopGuardCheck(st, answer) ==
    IF st.shopOpen
    THEN [st EXCEPT !.events = @ \cup {StatusEvent("guardAlreadyOpen", st)}]
    ELSE IF answer = "open"
    THEN SetShopOpenTo(st, TRUE)
    ELSE [st EXCEPT !.events = @ \cup {StatusEvent("guardClosed", st)}]

CheckShopStatusSetsFlag(st, answer) ==
    SetShopOpenTo([st EXCEPT !.events = @ \cup {StatusEvent("monitorChecked", st)}],
                  answer = "open")

\* StatusMonitor.checkShopStatus: if (open) ShopStatusManager.setShopOpen(true)
CheckShopStatus(st, answer) ==
    IF answer = "open"
    THEN SetShopOpenTo(st, TRUE)
    ELSE [st EXCEPT !.events = @ \cup {StatusEvent("monitorClosed", st)}]

\* ShopGuard's check settles
ShopGuardChecks(answer) ==
    /\ LET st == ShopGuardCheck(Cur, answer) IN ~st.overflow /\ se' = st
    /\ UNCHANGED <<lbVars, coVars, outs, up, tab2, libVars>>

\* StatusMonitor's check settles
StatusMonitorChecks(answer) ==
    /\ LET st == CheckShopStatus(Cur, answer) IN ~st.overflow /\ se' = st
    /\ UNCHANGED <<lbVars, coVars, outs, up, tab2, libVars>>

\* the writers and readers of the shop-open flag: ShopGuard, StatusMonitor and
\* the session manager
NextShopStatus ==
    \/ \E answer \in StatusAnswers : ShopGuardChecks(answer)
    \/ \E answer \in StatusAnswers : StatusMonitorChecks(answer)
    \/ \E i \in Insts : Mount(i)
    \/ \E i \in Insts : HandleRefresh(i)
    \/ \E i \in Insts : ClearSession(i)
    \/ \E q \in Runs, o \in ValidateOutcomes : ValidateSettles(q, o)
    \/ \E q \in Runs, o \in CreateOutcomes : CreateSettles(q, o)

SpecShopStatus == InitSession /\ [][NextShopStatus]_vars

\* page start-up: the shop is confirmed open, the components mount and the
\* requests of the initialization settle
NextStartup ==
    \/ SetShopOpen
    \/ \E i \in Insts : Mount(i)
    \/ \E q \in Runs, o \in ValidateOutcomes : ValidateSettles(q, o)
    \/ \E q \in Runs, o \in CreateOutcomes : CreateSettles(q, o)

\* fetchWithTimeout bounds every request of validateSessionWithBackend and of
\* createNewSession, so a request that was issued settles
RequestsSettle ==
    \A q \in Runs :
        /\ WF_vars(\E o \in ValidateOutcomes : ValidateSettles(q, o))
        /\ WF_vars(\E o \in CreateOutcomes : CreateSettles(q, o))

SpecStartupFair == InitSession /\ [][NextStartup]_vars /\ RequestsSettle

\* the browser runs the other tab: the window-scoped singletons, the hook
\* instances and the runs are the tab's own; localStorage, the clock and the
\* backend are shared
SwitchTab ==
    /\ se' = [tab2 EXCEPT !.storage = se.storage, !.now = se.now,
                          !.nextId = se.nextId, !.events = {}]
    /\ tab2' = Cur
    /\ UNCHANGED <<lbVars, coVars, outs, up, libVars>>

\* two tabs are loaded at the same instant on the same storage
InitTabs ==
    /\ Loaded(NoServer)
    /\ CheckoutClosed
    /\ outs = <<>>
    /\ up = NoUpload /\ NoLibrary
    /\ \E stored \in {NoSession, Session(0, 0)}, t \in TimePoints :
          se = PageLoad(stored, t) /\ tab2 = PageLoad(stored, t)

NextTabs ==
    \/ SetShopOpen
    \/ Mount(1)
    \/ \E q \in Runs, o \in ValidateOutcomes : ValidateSettles(q, o)
    \/ \E q \in Runs, o \in CreateOutcomes : CreateSettles(q, o)
    \/ SwitchTab

SpecTabs == InitTabs /\ [][NextTabs]_vars

\* the modal mounts with the staged files and the saved customer name
InitCheckout ==
    /\ InitLB
    /\ files \in StagedFiles
    /\ customerName \in Names
    /\ isProcessing = FALSE
    /\ error = NoError
    /\ showRetry = FALSE
    /\ lastAttempt = "none"
    /\ pay = IdlePay
    /\ razorpayLoaded \in BOOLEAN
    /\ att = NoAttempt
    /\ NoSessionManager
    /\ outs = <<>>
    /\ up = NoUpload /\ NoLibrary /\ NoSecondTab

NextCheckout ==
    \/ \E m \in {"online", "cash"} : ClickPay(m) /\ UNCHANGED <<se, outs, up, tab2, libVars>>
    \/ HandleRetry /\ UNCHANGED <<se, outs, up, tab2, libVars>>
    \/ \E n \in Names : UpdateCustomerName(n) /\ UNCHANGED <<se, outs, up, tab2, libVars>>
    \/ CheckoutFetchStep /\ UNCHANGED <<se, up, tab2, libVars>>
    \/ \E b \in OrderBodies : OrderCreateSettles(b) /\ UNCHANGED <<se, outs, up, tab2, libVars>>
    \/ \E d \in BOOLEAN : ScriptLoaded(d) /\ UNCHANGED <<se, outs, up, tab2, libVars>>
    \/ ScriptFailed /\ UNCHANGED <<se, outs, up, tab2, libVars>>
    \/ WidgetPaid /\ UNCHANGED <<se, outs, up, tab2, libVars>>
    \/ WidgetDismissed /\ UNCHANGED <<se, outs, up, tab2, libVars>>
    \/ \E b \in VerifyBodies : VerifySettles(b) /\ UNCHANGED <<se, outs, up, tab2, libVars>>

SpecCheckout == InitCheckout /\ [][NextCheckout]_vars

\* what goes on without the user pressing a button of the modal: the requests
\* settle by their timeouts, the checkout script loads or fails, and the
\* payment widget is paid or closed
CheckoutProgress ==
    \/ CheckoutFetchStep /\ UNCHANGED <<se, up, tab2, libVars>>
    \/ \E b \in OrderBodies : OrderCreateSettles(b) /\ UNCHANGED <<se, outs, up, tab2, libVars>>
    \/ \E d \in BOOLEAN : ScriptLoaded(d) /\ UNCHANGED <<se, outs, up, tab2, libVars>>
    \/ ScriptFailed /\ UNCHANGED <<se, outs, up, tab2, libVars>>
    \/ WidgetPaid /\ UNCHANGED <<se, outs, up, tab2, libVars>>
    \/ WidgetDismissed /\ UNCHANGED <<se, outs, up, tab2, libVars>>
    \/ \E b \in VerifyBodies : VerifySettles(b) /\ UNCHANGED <<se, outs, up, tab2, libVars>>

SpecCheckoutFair == SpecCheckout /\ WF_vars(CheckoutProgress)

\* the load balancer on its own: no checkout is open
NextLB == LBStep /\ UNCHANGED <<coVars, se, outs, up, tab2, libVars>>

InitLBAlone == InitLB /\ CheckoutClosed /\ NoSessionManager /\ outs = <<>> /\ up = NoUpload /\ NoLibrary /\ NoSecondTab

SpecLB == InitLBAlone /\ [][NextLB]_vars

\* one call observed on its own: each underlying request's outcome is recorded
FetchStart(opts) ==
    /\ LBStart(0, opts.retryOnFailure, opts.maxRetries)
    /\ outs' = <<>>
    /\ UNCHANGED <<coVars, se, up, tab2, libVars>>

FetchSettle(o) ==
    /\ LBStickySettle(0, o) \/ LBFallbackSettle(0, o)
    /\ outs' = Append(outs, o)
    /\ UNCHANGED <<coVars, se, up, tab2, libVars>>

FetchReturn ==
    /\ LBReturn(0)
    /\ outs' = <<>>
    /\ UNCHANGED <<coVars, se, up, tab2, libVars>>

FetchClearSticky ==
    /\ ClearStickyServer
    /\ UNCHANGED <<coVars, se, outs, up, tab2, libVars>>

NextFetch ==
    \/ \E opts \in CallOptions : FetchStart(opts)
    \/ \E o \in SignalOutcomes : FetchSettle(o)
    \/ FetchReturn
    \/ FetchClearSticky

SpecFetch == InitLBAlone /\ [][NextFetch]_vars

NextRegister ==
    \/ \E h \in BOOLEAN : RegisterStart(h)
    \/ \E o \in RegOutcomes : RegisterFetchSettle(o)
    \/ \E id \in ReturnedIds : RegisterContinue(id)
    \/ RegisterAgain

SpecRegister == InitLBAlone /\ [][NextRegister]_vars

NextBatch ==
    \/ \E n \in 1..MaxFiles : StageFiles(n)
    \/ StartUpload
    \/ \E i \in 1..MaxFiles, ok \in BOOLEAN : R2Settles(i, ok)
    \/ \E i \in 1..MaxFiles, ok \in BOOLEAN : RegistrationSettles(i, ok)
    \/ \E i \in 1..MaxFiles : HandleRetryUpload(i)
    \/ CloseProgress
    \/ CloseCheckout
    \/ HandleCheckoutSuccess

InitBatch == Loaded(NoServer) /\ CheckoutClosed /\ NoSessionManager /\ outs = <<>> /\ up = NoUpload /\ NoLibrary /\ NoSecondTab

SpecBatch == InitBatch /\ [][NextBatch]_vars

\* the timer of fetchWithTimeout aborts a registration request that is not
\* answered, so a started registration settles; the XMLHttpRequest of
\* uploadToR2 sets no timeout and has no timeout or abort listener, so nothing
\* forces a started storage upload to settle
RegistrationTimesOut ==
    \A i \in 1..MaxFiles : WF_vars(\E ok \in BOOLEAN : RegistrationSettles(i, ok))

SpecBatchFair == SpecBatch /\ RegistrationTimesOut

\* every underlying request eventually settles
SpecLBFair ==
    /\ SpecLB
    /\ \A c \in Calls :
         WF_vars((\E o \in FetchOutcomes : LBStickySettle(c, o)) /\ UNCHANGED <<coVars, se, outs, up, tab2, libVars>>)
    /\ \A c \in Calls :
         WF_vars((\E o \in FetchOutcomes : LBFallbackSettle(c, o)) /\ UNCHANGED <<coVars, se, outs, up, tab2, libVars>>)

-----------------------------------------------------------------------------
(* Library functions: calculatePrice of src/lib/api.ts and of usePricing *)

Prices == 0..MaxPrice
PageCounts == 0..MaxPages
CopyCounts == 1..MaxCopies
PaperSizes == {"A4", "a4", "A3"}
ColorModes == {"bw", "color"}
PaperTypes == {"normal", "matt"}

\* pricing objects: the two keys every table has, with or without a4_matt
PricingTables ==
    [{"a4_bw", "a4_color"} -> Prices]
    \cup [a4_bw : {2}, a4_color : {8}, a4_matt : Prices]

\* usePricing before its first fetch ended: pricing is null
NullPricing == [null |-> TRUE]

\* String.prototype.toLowerCase on the paper sizes
ToLowerCase(s) ==
    CASE s = "A4" -> "a4"
      [] s = "A3" -> "a3"
      [] OTHER -> s

PriceKeyAsTyped(paperSize, colorMode) == paperSize \o "_" \o colorMode

\* `${paperSize.toLowerCase()}_${colorMode}`
PriceKey(paperSize, colorMode) == ToLowerCase(paperSize) \o "_" \o colorMode

\* pricing[key] is a number
HasPrice(pricing, key) == key \in DOMAIN pricing

\* calculatePrice of src/lib/api.ts
CalculatePrice(paperSize, colorMode, pages, copies, pricing) ==
    LET priceKey == PriceKey(paperSize, colorMode)
        pricePerPage == IF HasPrice(pricing, priceKey) /\ pricing[priceKey] # 0
                        THEN pricing[priceKey] ELSE 2
    IN pages * copies * pricePerPage

\* calculatePrice returned by usePricing
UsePricingCalculatePrice(paperSize, colorMode, pages, copies, paperType, pricing) ==
    IF pricing = NullPricing THEN 0
    ELSE LET priceKey == PriceKey(paperSize, colorMode)
             pricePerPage ==
                IF paperType = "matt" /\ HasPrice(pricing, "a4_matt") /\ pricing.a4_matt # 0
                THEN pricing.a4_matt
                ELSE IF paperType = "glossy" /\ HasPrice(pricing, "a4_glossy")
                                             /\ pricing.a4_glossy # 0
                THEN pricing.a4_glossy
                ELSE IF HasPrice(pricing, priceKey) THEN pricing[priceKey]
                ELSE IF HasPrice(pricing, "a4_bw") THEN pricing.a4_bw
                ELSE 2
         IN pages * copies * pricePerPage

\* a caller evaluates calculatePrice of api.ts
CallCalculatePrice(paperSize, colorMode, pages, copies, pricing) ==
    /\ call = NoCall
    /\ call' = [fn |-> "calculatePrice", paperSize |-> paperSize, colorMode |-> colorMode,
                pages |-> pages, copies |-> copies, paperType |-> "normal",
                pricing |-> pricing,
                result |-> CalculatePrice(paperSize, colorMode, pages, copies, pricing)]
    /\ UNCHANGED <<lbVars, coVars, se, outs, up, tab2, pr, staged>>

\* a component evaluates the calculatePrice of its usePricing hook
CallUsePricingCalculatePrice(paperSize, colorMode, pages, copies, paperType, pricing) ==
    /\ call = NoCall
    /\ call' = [fn |-> "usePricing.calculatePrice", paperSize |-> paperSize,
                colorMode |-> colorMode, pages |-> pages, copies |-> copies,
                paperType |-> paperType, pricing |-> pricing,
                result |-> UsePricingCalculatePrice(paperSize, colorMode, pages, copies,
                                                    paperType, pricing)]
    /\ UNCHANGED <<lbVars, coVars, se, outs, up, tab2, pr, staged>>

\* the value is handed to the caller
CallReturns ==
    /\ call # NoCall
    /\ call' = NoCall
    /\ UNCHANGED <<lbVars, coVars, se, outs, up, tab2, pr, staged>>

InitLibrary ==
    /\ Loaded(NoServer) /\ CheckoutClosed /\ NoSessionManager /\ outs = <<>>
    /\ up = NoUpload /\ NoSecondTab /\ NoLibrary

NextPrice ==
    \/ /\ call = NoCall
       /\ \E s \in PaperSizes, m \in ColorModes, p \in PageCounts, c \in CopyCounts,
             t \in PricingTables : CallCalculatePrice(s, m, p, c, t)
    \/ /\ call = NoCall
       /\ \E s \in PaperSizes, m \in ColorModes, p \in PageCounts, c \in CopyCounts,
             y \in PaperTypes, t \in PricingTables \cup {NullPricing} :
             CallUsePricingCalculatePrice(s, m, p, c, y, t)
    \/ CallReturns

SpecPrice == InitLibrary /\ [][NextPrice]_vars

-----------------------------------------------------------------------------
(* Library functions: parsePageRange of src/lib/api.ts and of FileUpload; a
   string is the sequence of its characters *)

RangeChars == {"1", "3", "5", "-", ",", " "}

RangeStrings == UNION {[1..n -> RangeChars] : n \in 0..MaxRangeLen}

TotalPageCounts == {0, 2, 4, MaxPages}

SelectionTypes == {"all", "range", "specific"}

IsDigit(c) == c \in {"0", "1", "2", "3", "4", "5", "6", "7", "8", "9"}

DigitValue(c) ==
    CASE c = "0" -> 0 [] c = "1" -> 1 [] c = "2" -> 2 [] c = "3" -> 3 [] c = "4" -> 4
      [] c = "5" -> 5 [] c = "6" -> 6 [] c = "7" -> 7 [] c = "8" -> 8 [] c = "9" -> 9

\* String.prototype.split(sep): the pieces between the separators, empty ones kept
RECURSIVE SplitFrom(_, _, _, _)
SplitFrom(s, sep, k, piece) ==
    IF k > Len(s) THEN <<piece>>
    ELSE IF s[k] = sep THEN <<piece>> \o SplitFrom(s, sep, k + 1, <<>>)
    ELSE SplitFrom(s, sep, k + 1, Append(piece, s[k]))

Split(s, sep) == SplitFrom(s, sep, 1, <<>>)

RECURSIVE TrimStart(_)
TrimStart(s) == IF s # <<>> /\ Head(s) = " " THEN TrimStart(Tail(s)) ELSE s

RECURSIVE TrimEnd(_)
TrimEnd(s) ==
    IF s # <<>> /\ s[Len(s)] = " " THEN TrimEnd(SubSeq(s, 1, Len(s) - 1)) ELSE s

\* String.prototype.trim
TrimString(s) == TrimEnd(TrimStart(s))

\* String.prototype.includes for one character
Includes(s, c) == \E k \in 1..Len(s) : s[k] = c

NaN == [nan |-> TRUE, val |-> 0]
Num(n) == [nan |-> FALSE, val |-> n]

\* the value of the leading digits of s, acc digits already read
RECURSIVE Digits(_, _)
Digits(s, acc) ==
    IF s # <<>> /\ IsDigit(Head(s)) THEN Digits(Tail(s), 10 * acc + DigitValue(Head(s)))
    ELSE acc

\* parseInt(s): leading white space is skipped, a sign is read, then the digits
\* up to the first other character; NaN when there is no digit
ParseInt(s) ==
    LET t == TrimStart(s)
        signed == t # <<>> /\ Head(t) = "-"
        d == IF signed THEN Tail(t) ELSE t
    IN IF d = <<>> \/ ~IsDigit(Head(d)) THEN NaN
       ELSE Num(IF signed THEN 0 - Digits(d, 0) ELSE Digits(d, 0))

\* the truthiness of a number: neither NaN nor 0
TruthyNumber(n) == ~n.nan /\ n.val # 0

\* Set.prototype.add on the pages in insertion order
SetAdd(pages, i) == IF \E k \in 1..Len(pages) : pages[k] = i THEN pages ELSE Append(pages, i)

RECURSIVE AddRange(_, _, _)
\* for (let i = start; i <= end; i++) pages.add(i)
AddRange(pages, i, end) ==
    IF i > end THEN pages ELSE AddRange(SetAdd(pages, i), i + 1, end)

\* Array.from({length: totalPages}, (_, i) => i + 1)
AllPages(totalPages) == [i \in 1..totalPages |-> i]

\* one iteration of the loop over the parts
AddPart(pages, part, totalPages, selectionType) ==
    IF Includes(part, "-") /\ selectionType = "range"
    THEN LET nums == Split(part, "-")
             start == ParseInt(TrimString(nums[1]))
             end == ParseInt(TrimString(nums[2]))
         IN IF /\ TruthyNumber(start) /\ TruthyNumber(end)
               /\ start.val <= end.val /\ start.val >= 1 /\ end.val <= totalPages
            THEN AddRange(pages, start.val, end.val)
            ELSE pages
    ELSE LET pageNum == ParseInt(part)
         IN IF TruthyNumber(pageNum) /\ pageNum.val >= 1 /\ pageNum.val <= totalPages
            THEN SetAdd(pages, pageNum.val)
            ELSE pages

RECURSIVE AddParts(_, _, _, _)
AddParts(pages, parts, totalPages, selectionType) ==
    IF parts = <<>> THEN pages
    ELSE AddParts(AddPart(pages, Head(parts), totalPages, selectionType),
                  Tail(parts), totalPages, selectionType)

RECURSIVE InsertSorted(_, _)
InsertSorted(q, x) ==
    IF q = <<>> THEN <<x>>
    ELSE IF x - Head(q) < 0 THEN <<x>> \o q
    ELSE <<Head(q)>> \o InsertSorted(Tail(q), x)

RECURSIVE SortAscending(_)
SortAsInserted(q) == q

\* Array.prototype.sort((a, b) => a - b)
SortAscending(q) ==
    IF q = <<>> THEN <<>> ELSE InsertSorted(SortAscending(SubSeq(q, 1, Len(q) - 1)), q[Len(q)])

RECURSIVE TrimAll(_)
\* parts.map(p => p.trim())
TrimAll(parts) ==
    IF parts = <<>> THEN <<>> ELSE <<TrimString(Head(parts))>> \o TrimAll(Tail(parts))

\* parsePageRange
ParsePageRange(pageRange, totalPages, selectionType) ==
    IF pageRange = <<>> \/ selectionType = "all"
    THEN AllPages(totalPages)
    ELSE SortAscending(AddParts(<<>>, TrimAll(Split(pageRange, ",")), totalPages,
                                selectionType))

\* a caller evaluates parsePageRange, and evaluates it again on the same input
CallParsePageRange(pageRange, totalPages, selectionType) ==
    /\ call = NoCall
    /\ call' = [fn |-> "parsePageRange", pageRange |-> pageRange,
                totalPages |-> totalPages, selectionType |-> selectionType,
                result |-> ParsePageRange(pageRange, totalPages, selectionType),
                again |-> ParsePageRange(pageRange, totalPages, selectionType)]
    /\ UNCHANGED <<lbVars, coVars, se, outs, up, tab2, pr, staged>>

NextParse ==
    \/ /\ call = NoCall
       /\ \E s \in RangeStrings, n \in TotalPageCounts, y \in SelectionTypes :
             CallParsePageRange(s, n, y)
    \/ CallReturns

SpecParse == InitLibrary /\ [][NextParse]_vars

-----------------------------------------------------------------------------
(* Page-count estimator: detectPdfPages and estimatePagesByFileType of
   lib/pdf-utils, as processFiles of FileUpload calls them *)

\* extension and MIME type of the files that pass the type check of processFiles
FileKinds ==
    {[ext |-> "pdf", type |-> "application/pdf"],
     [ext |-> "jpg", type |-> "image/jpeg"],
     [ext |-> "tiff", type |-> "image/tiff"],
     [ext |-> "webp", type |-> "image/webp"]}

FileSizes == {1, 50000, 120000, 120001, 300000, 60000001}

\* the numbers that follow the /Count markers of a scanned file
CountValues == {0, 3, 5, 5001}

\* the number of matches of /\b\/Type\s*\/Page\b/g
PageMarkerCounts == {0, 2, 5000, 5001}

CountSeqs == UNION {[1..n -> CountValues] : n \in 0..MaxMarkers}

\* a dropped file: numPages is what PDF.js reports (0 when it fails), counts
\* the /Count markers in document order, catalogAt the marker that the first
\* /Type /Pages is followed by (0 when there is none)
DroppedFiles ==
    {f \in [kind : FileKinds, size : FileSizes, readFails : BOOLEAN, numPages : {0, 7},
            counts : CountSeqs, catalogAt : 0..MaxMarkers, pageMarkers : PageMarkerCounts] :
        /\ f.catalogAt <= Len(f.counts)
        /\ f.kind.ext # "pdf" =>
              /\ ~f.readFails /\ f.numPages = 0 /\ f.counts = <<>> /\ f.pageMarkers = 0}

\* Math.ceil(a / b)
CeilDiv(a, b) == (a + b - 1) \div b

\* !isNaN(n) && n > 0 && n <= 5000
ValidCount(n) == n > 0 /\ n <= 5000

RECURSIVE FilterValid(_)
\* counts.filter(n => !isNaN(n) && n > 0 && n <= 5000)
FilterValid(q) ==
    IF q = <<>> THEN <<>>
    ELSE IF ValidCount(Head(q)) THEN <<Head(q)>> \o FilterValid(Tail(q))
    ELSE FilterValid(Tail(q))

\* counts[Math.floor(counts.length / 2)]
MedianOf(q) == q[(Len(q) \div 2) + 1]

\* the heuristic of detectPdfPages on the first 500KB
HeuristicPages(f) ==
    LET counts == SortAscending(FilterValid(f.counts)) IN
    IF f.catalogAt > 0 /\ ValidCount(f.counts[f.catalogAt])
    THEN f.counts[f.catalogAt]
    ELSE IF f.pageMarkers > 0 /\ f.pageMarkers <= 5000
    THEN f.pageMarkers
    ELSE IF Len(f.counts) > 0 /\ Len(counts) > 0
    THEN MedianOf(counts)
    ELSE Min(Max(1, CeilDiv(f.size, 120000)), 500)

\* detectPdfPages
DetectPdfPages(f) ==
    IF f.readFails
    THEN Max(1, Min(200, CeilDiv(f.size, 150000)))
    ELSE IF f.numPages > 0
    THEN f.numPages
    ELSE HeuristicPages(f)

\* estimatePagesByFileType
EstimatePagesByFileType(f) ==
    CASE f.kind.ext = "pdf" -> Max(1, CeilDiv(f.size, 100000))
      [] f.kind.ext \in {"doc", "docx"} -> Max(1, CeilDiv(f.size, 50000))
      [] f.kind.ext = "txt" -> Max(1, CeilDiv(f.size, 3000))
      [] f.kind.ext \in {"jpg", "jpeg", "png", "bmp", "gif", "tiff", "tif"} -> 1
      [] OTHER -> Max(1, CeilDiv(f.size, 50000))

\* fileObj.pages as processFiles resolves it
ResolvePages(f) ==
    IF f.kind.type = "application/pdf" \/ f.kind.ext = "pdf"
    THEN DetectPdfPages(f)
    ELSE EstimatePagesByFileType(f)

\* processFiles resolves the page count of one accepted file
CallResolvePages(f) ==
    /\ call = NoCall
    /\ call' = [fn |-> "resolvePages", file |-> f, result |-> ResolvePages(f)]
    /\ UNCHANGED <<lbVars, coVars, se, outs, up, tab2, pr, staged>>

NextPages ==
    \/ /\ call = NoCall
       /\ \E f \in DroppedFiles : CallResolvePages(f)
    \/ CallReturns

SpecPages == InitLibrary /\ [][NextPages]_vars

-----------------------------------------------------------------------------
(* Drop zone of FileUpload: processFiles, onDrop and removeFile *)

\* the files a user drops; detectPdfPages is awaited for the PDFs only
DropNames == {"a.pdf", "b.pdf", "c.jpg"}

IsPdf(name) == name \in {"a.pdf", "b.pdf"}

RECURSIVE SetToSeq(_)
SetToSeq(S) ==
    IF S = {} THEN <<>>
    ELSE LET x == CHOOSE y \in S : TRUE IN <<x>> \o SetToSeq(S \ {x})

\* the files of a drop that pass the duplicate check against the files of the
\* render in which onDrop was created
Processed(closure, dropped) == dropped \ SeqToSet(closure)

\* const updatedFiles = [...files, ...processedFiles]; setFiles(updatedFiles)
SetFiles(closure, processed) == closure \o SetToSeq(processed)

\* a processFiles call ends: setFiles and onFilesChange
FinishProcessFiles(st, closure, dropped) ==
    [st EXCEPT !.files = SetFiles(closure, Processed(closure, dropped)),
               !.accepted = @ \cup Processed(closure, dropped)]

\* onDrop(acceptedFiles): processFiles runs to its first await, or to its end
\* when no PDF is among the files
OnDrop(d, dropped) ==
    /\ staged.drops[d].pc = "idle"
    /\ \A e \in 1..MaxDrops : e < d => staged.drops[e].pc # "idle"
    /\ staged' = IF \E n \in Processed(staged.files, dropped) : IsPdf(n)
                 THEN [staged EXCEPT !.drops[d] = [pc |-> "processing", files |-> staged.files,
                                                   dropped |-> dropped]]
                 ELSE FinishProcessFiles(staged, staged.files, dropped)
    /\ UNCHANGED <<lbVars, coVars, se, outs, up, tab2, call, pr>>

\* the page detection of a processFiles call is over and the call ends
DetectionSettles(d) ==
    /\ staged.drops[d].pc = "processing"
    /\ staged' = [FinishProcessFiles(staged, staged.drops[d].files, staged.drops[d].dropped)
                     EXCEPT !.drops[d] = NoStaged.drops[d]]
    /\ UNCHANGED <<lbVars, coVars, se, outs, up, tab2, call, pr>>

\* removeFile(fileId)
RemoveFile(name) ==
    /\ name \in SeqToSet(staged.files)
    /\ staged' = [staged EXCEPT !.files = SelectSeq(@, LAMBDA n : n # name),
                                !.accepted = @ \ {name}]
    /\ UNCHANGED <<lbVars, coVars, se, outs, up, tab2, call, pr>>

NextDrop ==
    \/ \E d \in 1..MaxDrops, dropped \in (SUBSET DropNames) \ {{}} : OnDrop(d, dropped)
    \/ \E d \in 1..MaxDrops : DetectionSettles(d)
    \/ \E name \in DropNames : RemoveFile(name)

SpecDrop == InitLibrary /\ [][NextDrop]_vars

-----------------------------------------------------------------------------
(* Pricing hook, usePricing: fetchPricing and its localStorage cache *)

CACHE_DURATION == 30 * 60 * 1000

\* the instants of the pricing model; a cache entry found at page load was
\* written at instant 0
PricingInstants == {0, CACHE_DURATION - 1, CACHE_DURATION, CACHE_DURATION + 1}

\* localStorage holds no 'printshop_pricing_cache' entry
NoCache == [data |-> NullPricing, timestamp |-> -1]

\* the prices a /customer/pricing answer names; a missing one is defaulted
PriceBodies == SUBSET {"a4_bw", "a4_color"}

\* normalized: Number(priceSource.a4_bw ?? 2.0), Number(priceSource.a4_color ?? 8.0)
Normalized(body) ==
    [a4_bw |-> IF "a4_bw" \in body THEN 3 ELSE 2,
     a4_color |-> IF "a4_color" \in body THEN 9 ELSE 8]

\* defaultPricing of the catch block
DefaultPricing == [a4_bw |-> 2, a4_color |-> 8]

\* how the awaited fetchWithLoadBalancer('/customer/pricing') ends: it throws,
\* or returns a 2xx response with a body
PricingOutcomes == {[thrown |-> TRUE, body |-> {}]} \cup [thrown : {FALSE}, body : PriceBodies]

\* usePricing after its first render at instant t with entry c in localStorage
PricingLoad(c, t) ==
    [pc |-> "mounting", pricing |-> NullPricing, loading |-> TRUE, error |-> "",
     cache |-> c, now |-> t, inflight |-> 0,
     op |-> "none", useCache |-> FALSE, sent |-> FALSE]

IsFreshInclusive(c, now) == now - c.timestamp <= CACHE_DURATION

\* now - parsedCache.timestamp < CACHE_DURATION
IsFresh(c, now) == now - c.timestamp < CACHE_DURATION

\* getCachedPricing
GetCachedPricing(p) ==
    IF p.cache # NoCache /\ IsFresh(p.cache, p.now) THEN p.cache.data ELSE NullPricing

\* cachePricing
CachePricing(p, data) == [p EXCEPT !.cache = [data |-> data, timestamp |-> p.now]]

\* fetchPricing(useCache) up to its return or its await
FetchPricing(p, useCache) ==
    LET p0 == [p EXCEPT !.loading = TRUE, !.op = "fetchPricing", !.useCache = useCache,
                        !.sent = FALSE]
        cachedData == GetCachedPricing(p0)
    IN IF useCache /\ cachedData # NullPricing
       THEN [p0 EXCEPT !.pricing = cachedData, !.error = "", !.loading = FALSE]
       ELSE [p0 EXCEPT !.inflight = @ + 1, !.sent = TRUE]

\* fetchPricing after its await: the success path, or the catch block, and finally
AfterPricingFetch(p, o) ==
    LET p0 == [p EXCEPT !.inflight = @ - 1, !.op = "settled", !.sent = FALSE] IN
    IF o.thrown
    THEN [p0 EXCEPT !.error = "All backend servers failed. Please try again later.",
                    !.pricing = DefaultPricing, !.loading = FALSE]
    ELSE [CachePricing([p0 EXCEPT !.pricing = Normalized(o.body)], Normalized(o.body))
             EXCEPT !.error = "", !.loading = FALSE]

\* the mount effect: fetchPricing()
PricingMount ==
    /\ pr.pc = "mounting"
    /\ pr' = [FetchPricing(pr, TRUE) EXCEPT !.pc = "mounted"]
    /\ UNCHANGED <<lbVars, coVars, se, outs, up, tab2, call, staged>>

\* refetch, that is fetchPricing(), or refresh, that is fetchPricing(false)
PricingRefetch(useCache) ==
    /\ pr.pc = "mounted"
    /\ pr.inflight < MaxFetches
    /\ pr' = FetchPricing(pr, useCache)
    /\ UNCHANGED <<lbVars, coVars, se, outs, up, tab2, call, staged>>

\* a pricing request settles
PricingSettles(o) ==
    /\ pr.inflight > 0
    /\ pr' = AfterPricingFetch(pr, o)
    /\ UNCHANGED <<lbVars, coVars, se, outs, up, tab2, call, staged>>

\* time passes
PricingTick(t) ==
    /\ t > pr.now
    /\ pr' = [pr EXCEPT !.now = t, !.op = "tick", !.sent = FALSE]
    /\ UNCHANGED <<lbVars, coVars, se, outs, up, tab2, call, staged>>

\* page load: the cache is empty or holds the table of an earlier visit
InitPricing ==
    /\ Loaded(NoServer) /\ CheckoutClosed /\ NoSessionManager /\ outs = <<>>
    /\ up = NoUpload /\ NoSecondTab /\ call = NoCall /\ staged = NoStaged
    /\ \E c \in {NoCache, [data |-> Normalized({"a4_bw"}), timestamp |-> 0]},
          t \in PricingInstants : pr = PricingLoad(c, t)

NextPricing ==
    \/ PricingMount
    \/ \E useCache \in BOOLEAN : PricingRefetch(useCache)
    \/ \E o \in PricingOutcomes : PricingSettles(o)
    \/ \E t \in PricingInstants : PricingTick(t)

SpecPricing == InitPricing /\ [][NextPricing]_vars

-----------------------------------------------------------------------------
(* Properties of the checkout flow *)

\* a staged file without a non-empty backend identifier
LacksId(f) == f.backendFileId \in {UndefinedId, "", " "}

LackingNames == [k \in 1..Len(SelectSeq(files, LacksId)) |-> SelectSeq(files, LacksId)[k].name]

HoldsStringId(f) == f.backendFileId \in {"A", "B"}

-----------------------------------------------------------------------------
(* Properties of the load-balanced fetch client *)

\* the pool in its order without server s, written out index by index
PoolOrderExcluding(s) ==
    LET keep == {k \in 1..Len(BACKEND_SERVERS) : BACKEND_SERVERS[k] # s}
        rank(k) == Cardinality({j \in keep : j <= k})
    IN [n \in 1..Cardinality(keep) |->
            BACKEND_SERVERS[CHOOSE k \in keep : rank(k) = n]]

\* the order in which a call may contact servers: sticky first, then the rest in pool order
AttemptOrder(s) == <<s>> \o PoolOrderExcluding(s)

IsPrefix(p, q) == Len(p) <= Len(q) /\ \A k \in 1..Len(p) : p[k] = q[k]

Waiting(c) == lb[c].pc \in {"sticky", "failover"}

\* call c's pending request settles with a failure in this step
AttemptFails(c) == Waiting(c) /\ lb'[c].nfail = lb[c].nfail + 1

\* call c's pending request settles with a 2xx answer in this step
AttemptSucceeds(c) == Waiting(c) /\ lb'[c].pc = "done" /\ lb'[c].nfail = lb[c].nfail

\* C7: with retryOnFailure, after a failed attempt the next server contacted is the
\* next of the pool in pool order without the sticky one (as long as maxRetries
\* allows another attempt); the first fallback that answers 2xx is written to
\* storage as the sticky server and its response is what the call returns.  With
\* the default maxRetries this covers the last server of the pool succeeding
\* after all the others failed.
C7_Failover ==
    [][\A c \in Calls :
        /\ (AttemptFails(c) /\ lb[c].retry) =>
             IF Len(lb[c].tried) < Min(Len(BACKEND_SERVERS), lb[c].maxRetries)
             THEN /\ lb'[c].pc = "failover"
                  /\ lb'[c].tried =
                       SubSeq(AttemptOrder(lb[c].sticky), 1, Len(lb[c].tried) + 1)
             ELSE lb'[c].pc = "done" /\ lb'[c].tried = lb[c].tried
        /\ (AttemptSucceeds(c) /\ lb[c].pc = "failover") =>
             /\ selectedServer' = lb[c].tried[Len(lb[c].tried)]
             /\ lb'[c].result = Response(lb[c].tried[Len(lb[c].tried)], TRUE)
             /\ lb'[c].tried = lb[c].tried
      ]_vars

\* C7 witness: default maxRetries, sticky and first fallback failed, the last
\* server of the order answered and is now the sticky server
C7_Witness ==
    \E c \in Calls :
        /\ lb[c].pc = "done" /\ lb[c].retry
        /\ lb[c].maxRetries = Len(BACKEND_SERVERS)
        /\ Len(lb[c].tried) = Len(BACKEND_SERVERS)
        /\ lb[c].nfail = Len(BACKEND_SERVERS) - 1
        /\ lb[c].result.type = "response" /\ lb[c].result.ok
        /\ lb[c].result.server = lb[c].tried[Len(BACKEND_SERVERS)]
        /\ selectedServer = lb[c].result.server

\* a step in which the stored sticky server is used and no request fails
StickyUseOK ==
    /\ selectedServer' = selectedServer
    /\ ApiUrl => ApiUrlOrigin = selectedServer
    /\ \A c \in Calls :
         (lb[c].pc = "idle" /\ lb'[c].pc = "sticky") => lb'[c].sticky = selectedServer

\* C8 as stated: once a sticky server is stored, in every step in which no
\* request fails (and the application does not clear it) the stored value
\* stays and apiUrl and a call's first attempt use it.
C8_StickyStableAsStated ==
    [][(/\ selectedServer \in PoolSet
        /\ ~ClearStickyServer
        /\ \A c \in Calls : ~AttemptFails(c)) => StickyUseOK]_vars

\* C8 amended: the same, as long as no call that already failed over is in flight.
C8_StickyStable ==
    [][(/\ selectedServer \in PoolSet
        /\ ~ClearStickyServer
        /\ \A c \in Calls : ~AttemptFails(c)
        /\ \A c \in Calls : lb[c].pc # "failover") => StickyUseOK]_vars

\* C8 witness: a stored sticky server was returned by apiUrl while a call's first
\* attempt is out to that same server
C8_Witness ==
    /\ selectedServer \in PoolSet
    /\ ApiUrlOrigin = selectedServer
    /\ \E c \in Calls : lb[c].pc = "sticky" /\ lb[c].sticky = selectedServer

\* C9: a call with retryOnFailure whose attempts all failed ends with the
\* terminal error 'All backend servers failed', not with a response.
C9_AllFailed ==
    \A c \in Calls :
        (lb[c].pc = "done" /\ lb[c].retry /\ lb[c].nfail = Len(lb[c].tried))
            => lb[c].result = Thrown("AllFailed")

\* C9 witness: all servers of the pool were tried and failed
C9_Witness ==
    \E c \in Calls :
        /\ lb[c].pc = "done" /\ lb[c].retry
        /\ lb[c].nfail = Len(BACKEND_SERVERS) /\ Len(lb[c].tried) = Len(BACKEND_SERVERS)
        /\ lb[c].result.err = "AllFailed"

NoRepeat(q) == \A j, k \in 1..Len(q) : j # k => q[j] # q[k]

RequestBound(c) == Max(1, Min(Len(BACKEND_SERVERS), lb[c].maxRetries))

\* C10: a call makes between 1 and max(1, min(pool size, maxRetries)) requests,
\* contacts no server twice, and once started it reaches its end (response or
\* error) provided every underlying request settles.
C10_BoundedTerminates ==
    /\ [](\A c \in Calls :
            lb[c].pc # "idle" =>
                /\ Len(lb[c].tried) >= 1
                /\ Len(lb[c].tried) <= RequestBound(c)
                /\ NoRepeat(lb[c].tried)
                /\ lb[c].pc = "done" => lb[c].result.type \in {"response", "error"})
    /\ \A c \in Calls : (lb[c].pc # "idle") ~> (lb[c].pc = "done")

\* C10 witness: a call that used its whole budget of min(pool size, maxRetries)
\* requests, each to a different server, and ended
C10_Witness ==
    \E c \in Calls :
        /\ lb[c].pc = "done" /\ lb[c].retry
        /\ lb[c].maxRetries > Len(BACKEND_SERVERS)
        /\ Len(lb[c].tried) = Len(BACKEND_SERVERS)
        /\ NoRepeat(lb[c].tried)

-----------------------------------------------------------------------------
(* Properties of one fetchWithLoadBalancer call and of fetchWithTimeout *)

\* every underlying request of the observed call ended the way k
AllEnded(k) == outs # <<>> /\ \A j \in 1..Len(outs) : outs[j] = k

\* C11 as stated: when the requests of a fetchWithLoadBalancer call ran out of
\* their timeout budget, the caller receives a TimeoutError.
C11_TimeoutReachesCaller ==
    (lb[0].pc = "done" /\ AllEnded("timeout")) => lb[0].result = Thrown("TimeoutError")

\* C12 as stated: what fetchWithTimeout raises (seen through a call without
\* failover) is a TimeoutError exactly when the internal timer expired; an
\* external abort and a network error are raised as something else.
C12_ErrorKindsDistinct ==
    (lb[0].pc = "done" /\ ~lb[0].retry) =>
        /\ lb[0].result.err = "TimeoutError" <=> outs = <<"timeout">>
        /\ outs \in {<<"aborted">>, <<"network">>} =>
               (lb[0].result.type = "error" /\ lb[0].result.err # "TimeoutError")

\* C13: with retryOnFailure = false the one request to the sticky server ends
\* the call: its non-2xx response or its error is what the caller gets, no
\* other server is contacted and the stored sticky server stays as it was.
C13_NoRetrySingleRequest ==
    [][(~lb[0].retry /\ lb[0].pc = "sticky" /\ outs' # outs) =>
          /\ lb'[0].pc = "done"
          /\ lb'[0].tried = <<lb[0].sticky>>
          /\ Len(outs') = 1
          /\ lb'[0].result = FetchWithTimeout(lb[0].sticky, outs'[1])
          /\ selectedServer' = selectedServer]_vars

\* C13 witness: a call without retry ended with the sticky server's non-2xx
\* response while that server is still the stored one
C13_Witness ==
    /\ lb[0].pc = "done" /\ ~lb[0].retry
    /\ outs = <<"non2xx">>
    /\ lb[0].result = Response(lb[0].sticky, FALSE)
    /\ selectedServer = lb[0].sticky

-----------------------------------------------------------------------------
(* Properties of the order creation of the checkout *)

\* the continuation of handlePaymentMethod runs on the settled /order/create call
OrderCreateContinues == pay.pc = "creating" /\ lb[0].pc = "done" /\ pay'.pc # "creating"

\* C15 as stated: when every answer to POST /order/create was outside 2xx, the
\* checkout shows the structured error message of the answer's body (or the
\* fallback naming the failed order creation), never another text and never
\* nothing.
C15_StructuredErrorShown ==
    [][(OrderCreateContinues /\ AllEnded("non2xx"))
           => \E b \in OrderBodies : error' = Err(StructuredMessage(b))]_vars

\* C16 as stated: when the order creation failed because its requests timed out
\* or failed on the network, the checkout shows the retry affordance and records
\* the attempted method.
C16_RetryOfferedAfterTimeout ==
    [][(OrderCreateContinues /\ (AllEnded("timeout") \/ AllEnded("network")))
           => (showRetry' /\ lastAttempt' = pay.method)]_vars

-----------------------------------------------------------------------------
(* Properties of the file registration *)

RegistrationEnded == up.reg.pc \in {"failed", "completed"}

\* C14 as stated: a registration whose multipart POST was answered with 400
\* 'MinRequestBodyDataRate' is retried exactly once with a JSON body; any other
\* failed answer is not retried and ends in an error for that file.
C14_JsonFallbackOnce ==
    /\ (RegistrationEnded /\ AllEnded("minRate400"))
           => up.reg.sent = <<"multipart", "json">>
    /\ (RegistrationEnded /\ AllEnded("non2xx"))
           => (up.reg.sent = <<"multipart">> /\ up.reg.status = "error")

-----------------------------------------------------------------------------
(* Properties of the upload batch *)

AllUploaded(b) ==
    Len(b.uploads) > 0 /\ \A i \in 1..Len(b.uploads) : b.uploads[i] = "completed"

\* C17 as stated: the checkout dialog opens only when every progress row is
\* completed or error and none is in error, and it opens by itself as soon as
\* the rows are all completed with none in error.
C17_BatchGating ==
    [][/\ (~up.showCheckout /\ up'.showCheckout) => AllUploaded(up')
       /\ (~AllUploaded(up) /\ AllUploaded(up')) => up'.showCheckout]_vars

-----------------------------------------------------------------------------
(* Properties of the session manager *)

Creating == {r \in Runs : se.runs[r].pc = "creating"}
Validating(u) == {r \in Runs : se.runs[r].pc = "validating" /\ se.runs[r].stored.uuid = u}

\* the requests in flight, each named by the run that issued it
CreateInFlight == {r \in Creating : se.runs[r].joined = r}
ValidateInFlight(u) == {r \in Validating(u) : se.runs[r].joined = r}

\* C1 as stated: the callers that are inside createNewSession at the same time
\* share a single POST /customer/create-session, so exactly one request is in
\* flight for them and they all receive its result.
C1_ConcurrentCreatesShareOnePost ==
    /\ \A r1, r2 \in Creating : se.runs[r1].joined = se.runs[r2].joined
    /\ Cardinality(CreateInFlight) <= 1

\* C2 as stated: in every reachable state at most one validate-session request
\* is in flight for a given customerUUID.
C2_OneValidateInFlightPerUUID ==
    \A u \in UUIDs : Cardinality(ValidateInFlight(u)) <= 1

IsPost(e) == e.type \in {"postValidate", "postCreate"}

\* C6 as stated: no validate-session or create-session request is issued while
\* the shop-open flag is false, and the session manager is not initialized
\* before the flag is true.
C6_ShopOpenGate ==
    /\ \A e \in se.events : IsPost(e) => e.shopOpen
    /\ ~se.shopOpen => (~se.inited /\ \A r \in Runs : se.runs[r].pc = "free")

\* the runs whose validation failed in the step that led to st: the request
\* threw, or the body lacked success = true
ValidationFailedIn(st) == {e \in st.events : e.type = "validationFailed"}

\* a create-session request is due: the run read no stored session within its
\* validity window, or its validation answered success with valid = false
CreateIsDue(e) ==
    \/ e.stored = NoSession
    \/ e.validation.called /\ e.validation.ok /\ e.validation.success /\ ~e.validation.valid

\* the step of a failed validation creates no session for the run, leaves
\* storage as it was, leaves the run's instance with the stored session and
\* sets the initialized flag
KeepsAndAdopts(e) ==
    /\ \A c \in se'.events : c.type = "postCreate" => c.run # e.run
    /\ se'.storage = se.storage
    /\ se'.inst[e.inst].session \in {e.stored, se'.storage}
    /\ se'.inited

\* C5 as stated: initialization issues a create-session request only when it is
\* due, and a step in which validation fails creates no session, keeps the
\* stored session unchanged in storage, adopts it and sets the initialized flag.
C5_FailOpenAsStated ==
    [][/\ \A e \in se'.events : e.type = "postCreate" => CreateIsDue(e)
       /\ \A e \in ValidationFailedIn(se') : KeepsAndAdopts(e)]_vars

\* the initializeSession runs that started in the step
StartedInStep == {r \in Runs : se.started < r /\ r <= se'.started}

\* C18: a stored session whose age has reached 24 hours (24 h + 1 ms included)
\* is expired when initializeSession reads it: it is removed from storage and no
\* validate-session request is made for it; a stored session younger than 24
\* hours (24 h - 1 ms included) is kept and the run goes to its validation.
C18_ValidityBoundary ==
    [][\A r \in StartedInStep :
          se.storage # NoSession =>
             IF se.now - se.storage.createdAt >= SESSION_DURATION
             THEN /\ se'.storage = NoSession
                  /\ se'.runs[r].pc = "creating"
                  /\ \A e \in se'.events : e.type # "postValidate"
             ELSE /\ se'.storage = se.storage
                  /\ se'.runs[r].pc = "validating"
                  /\ se'.runs[r].stored = se.storage]_vars

\* a run found the stored session 24 h + 1 ms old, removed it and went on to
\* create a session
C18_Witness ==
    /\ se.now = SESSION_DURATION + 1
    /\ se.storage = NoSession
    /\ \E e \in se.events : e.type = "removeItem" /\ e.stored = Session(0, 0)
    /\ \E r \in Runs : se.runs[r].pc = "creating" /\ se.runs[r].stored = NoSession

\* a run found the stored session 24 h - 1 ms old and posted its validation
C18_YoungValidated ==
    /\ se.now = SESSION_DURATION - 1
    /\ \E e \in se.events : e.type = "postValidate" /\ e.stored = Session(0, 0)

\* the runs whose session creation failed in the step: they awaited
\* createNewSession and returned while the backend created no session
CreateFailedInStep ==
    {r \in Runs : /\ se.runs[r].pc = "creating"
                  /\ se'.runs[r].pc = "free"
                  /\ se'.nextId = se.nextId}

\* Home's OrderSummary: disabled={!sessionId || !customerUUID || sessionLoading}
CheckoutBlocked(inst) == inst.session = NoSession \/ inst.loading

\* C19 as stated: when the session creation of a run fails, its instance shows a
\* non-empty error, the global initialized flag is false, no instance is handed
\* a session by a broadcast, the instance exposes no session and its checkout
\* button is blocked.
C19_CreateFailureSurfaces ==
    [][\A r \in CreateFailedInStep :
          LET i == se.runs[r].inst IN
          /\ se'.inst[i].error # ""
          /\ ~se'.inited
          /\ \A j \in Insts : se'.inst[j].session = se.inst[j].session
          /\ se'.inst[i].session = NoSession
          /\ CheckoutBlocked(se'.inst[i])]_vars

\* a tab has finished its initialisation without an error: the shop is open,
\* its component is mounted, no run is in flight and the instance is no longer
\* loading
TabLoaded(st) ==
    /\ st.shopOpen
    /\ st.mounted # <<>>
    /\ \A r \in Runs : st.runs[r].pc = "free"
    /\ \A k \in 1..Len(st.mounted) :
          ~st.inst[st.mounted[k]].loading /\ st.inst[st.mounted[k]].error = ""

SessionsOf(st) == {st.inst[st.mounted[k]].session : k \in 1..Len(st.mounted)}

\* C20 as stated: once two tabs that share the storage have both finished their
\* initialisation, the session of each tab is the session held in storage.
C20_TabsAgreeWithStorage ==
    (TabLoaded(se) /\ TabLoaded(tab2))
        => SessionsOf(se) \cup SessionsOf(tab2) = {se.storage}

\* the runs awaiting the request that run q issued, q excluded
JoinersOf(q) == {r \in Runs : r # q /\ se.runs[r].pc # "free" /\ se.runs[r].joined = q}

\* the request that run q issued settles in the step
SettlesInStep(q) ==
    /\ se.runs[q].pc \in {"validating", "creating"}
    /\ se.runs[q].joined = q
    /\ se'.runs[q] # se.runs[q]

\* C21 as stated: when a shared create-session or validate-session request
\* settles, rejected or not, every caller that joined it ends in the same
\* result and the same follow-up state as the caller that issued it.
C21_JoinersShareOutcome ==
    [][\A q \in Runs : SettlesInStep(q) =>
          \A r \in JoinersOf(q) :
             /\ se'.runs[r].pc = se'.runs[q].pc
             /\ se'.inst[se.runs[r].inst].error = se'.inst[se.runs[q].inst].error
             /\ se'.inst[se.runs[r].inst].session = se'.inst[se.runs[q].inst].session]_vars

-----------------------------------------------------------------------------
(* Properties of the cash path of the checkout *)

\* C22: for the cash method a successful order creation ends the attempt:
\* onSuccess(orderId, 'cash') is called once, no request is running or started
\* afterwards, and neither the payment widget nor the verification is entered.
C22_CashTerminal ==
    [][/\ (pay.pc = "creating" /\ pay.method = "cash" /\ pay'.pc # "creating")
            => /\ pay'.pc \in {"closed", "idle"}
               /\ lb'[0].pc = "idle"
               /\ pay'.pc = "closed" =>
                     /\ att'.success = "cash"
                     /\ att'.successes = 1
                     /\ att'.verify = "none"
                     /\ ~isProcessing'
       /\ pay.pc = "closed" => (lb' = lb /\ pay' = pay /\ att' = att)]_vars

\* a cash attempt reported success once and the checkout closed
C22_Witness ==
    /\ pay = [pc |-> "closed", method |-> "cash"]
    /\ att.success = "cash" /\ att.successes = 1 /\ att.verify = "none"
    /\ lb[0].pc = "idle"

-----------------------------------------------------------------------------
(* Properties of calculatePrice *)

PriceCall == call.fn \in {"calculatePrice", "usePricing.calculatePrice"}

\* the same function applied to the arguments of the call with other pages and copies
Recalculated(pages, copies) ==
    IF call.fn = "calculatePrice"
    THEN CalculatePrice(call.paperSize, call.colorMode, pages, copies, call.pricing)
    ELSE UsePricingCalculatePrice(call.paperSize, call.colorMode, pages, copies,
                                  call.paperType, call.pricing)

KeyPriced ==
    /\ call.pricing # NullPricing
    /\ call.paperType = "normal"
    /\ HasPrice(call.pricing, PriceKey(call.paperSize, call.colorMode))

\* C23 as stated: calculatePrice returns pages x copies x the unit price that the
\* pricing table holds for the (paperSize, colorMode) key.
C23_UnitPriceOfKey ==
    (PriceCall /\ KeyPriced)
        => call.result = call.pages * call.copies
                            * call.pricing[PriceKey(call.paperSize, call.colorMode)]

\* C23 amended: for a key whose unit price is not zero the result is pages x
\* copies x that price; with {a4_bw: 2, a4_color: 8}, ('A4', 'color', 10, 2)
\* gives 160; and the result is proportional to copies and to pages whatever
\* the table holds.
C23_PriceLinear ==
    PriceCall =>
       /\ (KeyPriced /\ call.pricing[PriceKey(call.paperSize, call.colorMode)] # 0)
             => call.result = call.pages * call.copies
                                 * call.pricing[PriceKey(call.paperSize, call.colorMode)]
       /\ ( /\ call.pricing = [a4_bw |-> 2, a4_color |-> 8]
            /\ call.paperSize = "A4" /\ call.colorMode = "color"
            /\ call.pages = 10 /\ call.copies = 2 ) => call.result = 160
       /\ \A c \in CopyCounts : Recalculated(call.pages, c) * call.copies = call.result * c
       /\ \A p \in PageCounts : Recalculated(p, call.copies) * call.pages = call.result * p

\* the call of the example returned 160
C23_Witness ==
    /\ call.fn = "calculatePrice"
    /\ call.pricing = [a4_bw |-> 2, a4_color |-> 8]
    /\ call.paperSize = "A4" /\ call.colorMode = "color"
    /\ call.pages = 10 /\ call.copies = 2
    /\ call.result = 160

-----------------------------------------------------------------------------
(* Properties of parsePageRange *)

ParseCall == call.fn = "parsePageRange"

Ascending(q) == \A k \in 1..(Len(q) - 1) : q[k] < q[k + 1]

\* the input is one range "a-b" of two digits with a <= b, selected as a range
OneRange ==
    /\ ParseCall
    /\ call.selectionType = "range"
    /\ Len(call.pageRange) = 3
    /\ IsDigit(call.pageRange[1]) /\ call.pageRange[2] = "-" /\ IsDigit(call.pageRange[3])
    /\ DigitValue(call.pageRange[1]) <= DigitValue(call.pageRange[3])

\* the pages a..b that lie within 1..totalPages
NamedWithin(a, b, totalPages) == {p \in a..b : p >= 1 /\ p <= totalPages}

\* C24 as stated: the result is the ascending, duplicate-free list of the pages
\* named by the range string that lie within 1..totalPages.
C24_NamedPagesWithinTotal ==
    OneRange =>
       /\ Ascending(call.result)
       /\ SeqToSet(call.result) = NamedWithin(DigitValue(call.pageRange[1]),
                                              DigitValue(call.pageRange[3]),
                                              call.totalPages)

\* C24 amended: the result is ascending, duplicate-free and within
\* 1..totalPages; a range a-b contributes its pages when b <= totalPages and
\* nothing when it reaches beyond totalPages; '1-3,5' selected as a range of a
\* document of at least 5 pages gives [1,2,3,5]; a second call on the same
\* input gives the same list.
C24_ParsePageRange ==
    ParseCall =>
       /\ Ascending(call.result)
       /\ \A k \in 1..Len(call.result) :
             call.result[k] >= 1 /\ call.result[k] <= call.totalPages
       /\ OneRange =>
             SeqToSet(call.result) =
                IF DigitValue(call.pageRange[3]) <= call.totalPages
                   /\ DigitValue(call.pageRange[1]) >= 1
                THEN DigitValue(call.pageRange[1])..DigitValue(call.pageRange[3])
                ELSE {}
       /\ ( /\ call.pageRange = <<"1", "-", "3", ",", "5">>
            /\ call.selectionType = "range"
            /\ call.totalPages >= 5 ) => call.result = <<1, 2, 3, 5>>
       /\ call.again = call.result

\* the call of the example returned [1,2,3,5]
C24_Witness ==
    /\ ParseCall
    /\ call.pageRange = <<"1", "-", "3", ",", "5">>
    /\ call.selectionType = "range"
    /\ call.totalPages = MaxPages
    /\ call.result = <<1, 2, 3, 5>>

-----------------------------------------------------------------------------
(* Properties of the per-file retry *)

\* handleRetryUpload(i) ran in the step: the dialog is open and file i, staged
\* before and after, has one task more
RetriedInStep(i) ==
    /\ up.show
    /\ i \in 1..up.files /\ up'.files = up.files
    /\ TasksOf(up', i) = TasksOf(up, i) + 1

\* C25: a retry of a file that holds its storage URL and key only repeats the
\* registration and starts no storage upload; a retry of a file without them
\* starts the storage upload, which the registration follows. A progress row
\* enters error only from uploading or registering.
C25_RetryFailedStageOnly ==
    [][/\ \A i \in 1..MaxFiles : RetriedInStep(i) =>
             IF up.r2[i]
             THEN /\ up'.tasks[i].r2 = up.tasks[i].r2
                  /\ up'.tasks[i].reg = up.tasks[i].reg + 1
                  /\ up'.uploads[i] = "registering"
             ELSE /\ up'.tasks[i].r2 = up.tasks[i].r2 + 1
                  /\ up'.tasks[i].reg = up.tasks[i].reg
                  /\ up'.uploads[i] = "uploading"
       /\ \A i \in 1..Len(up.uploads) :
             (i <= Len(up'.uploads) /\ up.uploads[i] # "error" /\ up'.uploads[i] = "error")
                => up.uploads[i] \in {"uploading", "registering"}]_vars

-----------------------------------------------------------------------------
(* Properties of the shop-open signal *)

\* what an instance holds after hydrating from storage
Hydrated(i) ==
    IF se.storage # NoSession /\ IsSessionValid(se.storage, se.now)
    THEN se.storage ELSE se.inst[i].session

\* C26: when 'shop-status-open' is dispatched while an initialization is in
\* flight (init promise registered) or completed (initialized flag set), every
\* instance only hydrates its session from storage: no initializeSession run
\* starts and no validate-session or create-session request is issued. In any
\* dispatch at most one instance starts the initialization.
C26_ShopOpenOnlyHydrates ==
    [][SetShopOpen =>
          /\ Cardinality(StartedInStep) <= 1
          /\ (se.initP # 0 \/ se.inited) =>
                /\ StartedInStep = {}
                /\ se'.runs = se.runs
                /\ \A e \in se'.events : ~IsPost(e)
                /\ \A k \in 1..Len(se.mounted) :
                      se'.inst[se.mounted[k]].session = Hydrated(se.mounted[k])]_vars

\* two instances are mounted, one run is initializing, and the instance that
\* did not start it holds the stored session
C26_Witness ==
    /\ se.shopOpen /\ se.initP # 0 /\ ~se.inited
    /\ Len(se.mounted) = 2 /\ se.started = 1
    /\ se.storage # NoSession
    /\ \E i \in Insts :
          /\ ~se.inst[i].hasInitializedRef
          /\ se.inst[i].session = se.storage
          /\ ~se.inst[i].loading

-----------------------------------------------------------------------------
(* Properties of the 'session-initialized' broadcast *)

\* 'session-initialized' was dispatched in the step
BroadcastInStep == \E e \in se'.events : e.type = "sessionInitialized"

\* C27: whenever 'session-initialized' is broadcast, the initialized flag is
\* set and storage holds the session the initializer adopted, so every mounted
\* instance, the initializer included, ends with the session in storage.
C27_BroadcastAgrees ==
    [][BroadcastInStep =>
          /\ se'.inited
          /\ se'.storage # NoSession
          /\ \A k \in 1..Len(se'.mounted) :
                se'.inst[se'.mounted[k]].session = se'.storage]_vars

-----------------------------------------------------------------------------
(* Termination of the upload batch *)

\* row i of the progress list has reached completed or error, or the list was reset
RowSettled(i) == i > Len(up.uploads) \/ up.uploads[i] \in {"completed", "error"}

\* C28: every network step of the per-file pipeline is bounded by a timeout, so
\* every row the progress dialog shows eventually reaches completed or error.
C28_BatchSettles ==
    \A i \in 1..MaxFiles : (up.show /\ i <= Len(up.uploads)) ~> RowSettled(i)

-----------------------------------------------------------------------------
(* Properties of the pricing cache *)

\* fetchPricing was called in the step with the cache enabled
CachedFetchInStep == pr'.op = "fetchPricing" /\ pr'.useCache

\* C29: fetchPricing with the cache enabled serves a cached table younger than
\* 30 minutes without a request; a table aged 30 minutes or more, or an absent
\* one, is not used and the backend is fetched; a successful fetch rewrites the
\* cache with the current timestamp.
C29_CacheFreshness ==
    [][/\ CachedFetchInStep =>
            IF pr.cache # NoCache /\ pr.now - pr.cache.timestamp < 30 * 60 * 1000
            THEN /\ ~pr'.sent /\ pr'.inflight = pr.inflight
                 /\ pr'.pricing = pr.cache.data
                 /\ ~pr'.loading
            ELSE /\ pr'.sent /\ pr'.inflight = pr.inflight + 1
                 /\ pr'.pricing = pr.pricing
       /\ (pr'.op = "settled" /\ pr'.error = "") =>
            /\ pr'.cache = [data |-> pr'.pricing, timestamp |-> pr.now]
       /\ pr'.cache # pr.cache => pr'.op = "settled" /\ pr'.error = ""]_vars

\* a fetch with the cache enabled found a table aged exactly 30 minutes and
\* asked the backend
C29_Witness ==
    /\ pr.pc = "mounted" /\ pr.op = "fetchPricing" /\ pr.useCache /\ pr.sent
    /\ pr.cache # NoCache
    /\ pr.now - pr.cache.timestamp = CACHE_DURATION

-----------------------------------------------------------------------------
(* Properties of ShopStatusManager.setShopOpen *)

\* C30: every setShopOpen(true) sets the shop-open flag before it dispatches
\* 'shop-status-open': the flag is up in every observation made by the
\* listeners the event runs, and the listeners have run when the call returns;
\* setShopOpen(false) lowers the flag and dispatches nothing.
C30_FlagBeforeDispatch ==
    [][/\ SetShopOpen =>
            /\ se'.shopOpen
            /\ \A e \in se'.events : e.shopOpen
            /\ se' = DispatchShopOpen([Cur EXCEPT !.shopOpen = TRUE], se.mounted)
       /\ SetShopClosed =>
            /\ ~se'.shopOpen
            /\ se'.events = {}
            /\ se'.runs = se.runs /\ se'.inst = se.inst /\ se'.started = se.started]_vars

\* the shop was closed and is open again: the dispatch of setShopOpen(true)
\* started the initialization on one of two mounted instances, and its request
\* was issued with the flag up
C30_Witness ==
    /\ se.shopOpen /\ Len(se.mounted) = 2 /\ se.started = 1
    /\ \E e \in se.events : IsPost(e) /\ e.shopOpen

-----------------------------------------------------------------------------
(* Properties of the page-count estimator *)

\* the /Count numbers in ascending order, all of them
AllCountsSorted(f) == SortAscending(f.counts)

\* the first available of: catalog count, page markers, median of the count
\* markers, size-based estimate
FirstAvailable(f) ==
    IF f.catalogAt > 0 /\ f.counts[f.catalogAt] \in 1..5000
    THEN f.counts[f.catalogAt]
    ELSE IF f.pageMarkers > 0
    THEN f.pageMarkers
    ELSE IF Len(f.counts) > 0
    THEN AllCountsSorted(f)[(Len(f.counts) \div 2) + 1]
    ELSE Min(Max(1, CeilDiv(f.size, 120000)), 500)

\* C31: for a PDF whose precise parsing fails the page count is the first
\* available of catalog count (in 1..5000), number of page markers, median of
\* all count markers, ceil(size/120000) capped at 500; the result is always an
\* integer >= 1; an image file always counts as 1 page.
C31_PageCountFallbacks ==
    call.fn = "resolvePages" =>
        /\ call.result >= 1
        /\ (call.file.kind.ext = "pdf" /\ ~call.file.readFails /\ call.file.numPages = 0)
              => call.result = FirstAvailable(call.file)
        /\ call.file.kind.type \in {"image/jpeg", "image/tiff", "image/webp"}
              => call.result = 1

-----------------------------------------------------------------------------
(* Properties of the order-creation request *)

\* C32: one invocation of handlePaymentMethod sends at most one POST
\* /order/create to the backend pool; the request is not re-sent to another
\* server within the invocation.
C32_OrderCreateSentOnce ==
    pay.pc = "creating" => Len(lb[0].tried) <= 1

-----------------------------------------------------------------------------
(* Properties of the completed rows *)

\* C33: in every reachable state a progress item whose status is completed
\* belongs to a staged file that holds a non-empty backendFileId.
C33_CompletedHasBackendId ==
    up.reg.status = "completed" => up.reg.backendFileId # ""

-----------------------------------------------------------------------------
(* Properties of the responses of fetchWithLoadBalancer *)

\* C34: with retryOnFailure enabled a fetchWithLoadBalancer call never returns
\* a non-2xx response: it returns a response with ok = true or it throws.
C34_OkOrThrows ==
    (lb[0].pc = "done" /\ lb[0].retry) =>
        \/ lb[0].result.type = "error"
        \/ lb[0].result.type = "response" /\ lb[0].result.ok

\* every server contacted answered outside 2xx and the call ended by throwing
C34_Witness ==
    /\ lb[0].pc = "done" /\ lb[0].retry
    /\ Len(outs) > 1
    /\ \A k \in 1..Len(outs) : outs[k] = "non2xx"
    /\ lb[0].result.type = "error"

-----------------------------------------------------------------------------
(* Properties of a batch completed by retries *)

\* the dialog is open on a batch that settled with an error before (the
\* completion flag is latched) and every row is now completed
RetriedToCompleted == up.show /\ up.allCompleted /\ AllUploaded(up)

\* C35: when a batch first settles with some row in error and per-file retries
\* then bring every row to completed, the checkout dialog is eventually opened
\* for that batch.
C35_RetriedBatchOpensCheckout == RetriedToCompleted ~> up.showCheckout

-----------------------------------------------------------------------------
(* Termination of the session initialization *)

\* C36: once the shop-open signal has fired and every request settles, every
\* mounted instance eventually reaches loading = false, whatever the outcome
\* of the initialization.
C36_LoadingEnds ==
    \A i \in Insts : (se.shopOpen /\ IsMounted(i)) ~> ~se.inst[i].loading

-----------------------------------------------------------------------------
(* Termination of a payment attempt *)

\* C37: after every payment attempt the checkout eventually leaves the
\* processing state, also when the payment widget is closed without its
\* completion callback being called.
C37_ProcessingEnds == isProcessing ~> ~isProcessing

-----------------------------------------------------------------------------
(* Properties of the drop zone *)

\* no processFiles call is running
NoDropRunning == \A d \in 1..MaxDrops : staged.drops[d].pc = "idle"

\* C38: every file accepted by processFiles is in the staged list once all
\* running processFiles calls have finished, also when two drops are processed
\* concurrently.
C38_AcceptedFilesStaged ==
    NoDropRunning => \A n \in staged.accepted : n \in SeqToSet(staged.files)

-----------------------------------------------------------------------------
(* Properties of the shop-open flag *)

\* C39: the shop-open flag is monotonic within a page lifetime: once it is
\* true no operation of ShopGuard, StatusMonitor or the session manager sets it
\* back to false, also when a later shop-status check reports the shop closed.
C39_FlagMonotonic == [][se.shopOpen => se'.shopOpen]_vars

\* the flag is up and the last StatusMonitor check reported the shop closed
C39_Witness ==
    /\ se.shopOpen
    /\ \E e \in se.events : e.type = "monitorClosed" /\ e.shopOpen

-----------------------------------------------------------------------------
(* Properties of the stored sticky server *)

\* the round-robin index moves only when getStickyServer found nothing stored,
\* by one place in pool order, and the server at the old index is stored
AssignedInPoolOrder ==
    currentServerIndex' # currentServerIndex =>
        /\ selectedServer = NoServer
        /\ selectedServer' = BACKEND_SERVERS[currentServerIndex + 1]
        /\ currentServerIndex' = (currentServerIndex + 1) % Len(BACKEND_SERVERS)

\* C40: after any sequence of getStickyServer, apiUrl, clearStickyServer and
\* fetchWithLoadBalancer calls the stored sticky-server value is absent or a
\* member of the backend pool, and every server getStickyServer returns is a
\* pool member, assigned in round-robin pool order when none is stored.
C40_StickyInPool ==
    /\ [](selectedServer \in PoolSet \cup {NoServer})
    /\ [](GetStickyServer(selectedServer, currentServerIndex).server \in PoolSet)
    /\ [][AssignedInPoolOrder]_vars

\* getStickyServer has assigned twice, at module load and again after the
\* stored value was cleared: the second server of the pool is stored
C40_Witness ==
    /\ currentServerIndex = 2
    /\ selectedServer = BACKEND_SERVERS[2]

====
